---- MODULE Spec2Model ----
(***************************************************************************)
(* Percival (PMO): the record model behind every mutation.                 *)
(*                                                                         *)
(* The tables, their foreign keys with the ON DELETE policy of each, the   *)
(* UNIQUE constraints and the updated_at trigger are those of              *)
(* database/schema.sql.  A row is a record, a table a set of rows, a UUID  *)
(* a fresh positive integer (never reused), SQL NULL the value NULL.       *)
(* The request handlers that run the statements and write the audit row    *)
(* (the backend) are modelled from the design document.                    *)
(***************************************************************************)
EXTENDS Integers, FiniteSets, Sequences, TLC

VARIABLES users, teams, team_members, projects, project_members, milestones,
          tasks, task_comments, activity_logs, time_logs, tags, task_tags,
          attachments, notifications, nextId, now, result, ops, session,
          activeTimer, timerElapsed, timeLogs, txn, cascade, seen,
          insertion, pages, user, token, isAuthenticated, localStorage,
          location, calls, state, requests, backend

store == <<users, teams, team_members, projects, project_members, milestones,
           tasks, task_comments, activity_logs, time_logs, tags, task_tags,
           attachments, notifications>>

vars == <<users, teams, team_members, projects, project_members, milestones,
          tasks, task_comments, activity_logs, time_logs, tags, task_tags,
          attachments, notifications, nextId, now, result, ops, session,
          activeTimer, timerElapsed, timeLogs, txn, cascade, seen,
          insertion, pages, user, token, isAuthenticated, localStorage,
          location, calls, state, requests, backend>>

\* the state of the timesheet page
page == <<activeTimer, timerElapsed, timeLogs>>

\* the auth store, the browser's localStorage and address, and the calls made
\* on the store so far
auth == <<user, token, isAuthenticated, localStorage, location, calls>>

\* the React state of the component that is mounted, the requests it has sent
\* and what the backend holds for it
react == <<state, requests, backend>>

\* the state of the pages other than the timesheet
browser == <<auth, react>>

\* the state held by the browser
client == <<session, page, browser>>

\* the transactions that are open, and what a reader last saw
inflight == <<txn, cascade, seen>>

\* the order in which the rows of activity_logs were inserted, and the pages
\* a reader of the feed has fetched
feed == <<insertion, pages>>

\* what a request that the backend runs in one step leaves alone
elsewhere == <<client, inflight, feed>>

(***************************************************************************)
(* Bounds of the model.                                                    *)
(***************************************************************************)
MaxOps == 2
MaxClock == 1

NULL == 0

\* variant: the enum has no 'blocked'
task_status_without_blocked == {"todo", "inprogress", "review", "done"}

\* CREATE TYPE task_status AS ENUM
task_status == {"todo", "inprogress", "review", "done", "blocked"}

Ids(rows) == {r.id : r \in rows}

(***************************************************************************)
(* Referential actions.  gone is the set of parent ids a DELETE removes.   *)
(***************************************************************************)
Cascade(rows, col, gone) == {r \in rows : r[col] \notin gone}

SetNull(rows, col, gone) ==
  {IF r[col] \in gone THEN [r EXCEPT ![col] = NULL] ELSE r : r \in rows}

Restrict(rows, col, gone) == \E r \in rows : r[col] \in gone

\* BEFORE UPDATE ... FOR EACH ROW: NEW.updated_at = NOW()
update_updated_at_column(r) == [r EXCEPT !.updated_at = now]

SetNullTouch(rows, col, gone) ==
  {IF r[col] \in gone
     THEN update_updated_at_column([r EXCEPT ![col] = NULL])
     ELSE r : r \in rows}

(***************************************************************************)
(* The REFERENCES clauses, one definition per foreign key: what a DELETE   *)
(* of the parent rows gone does to the rows of the referencing table.      *)
(***************************************************************************)
\* teams.lead_id REFERENCES users(id) ON DELETE SET NULL
teams_lead_id(rows, gone) == SetNullTouch(rows, "lead_id", gone)

\* team_members.team_id REFERENCES teams(id) ON DELETE CASCADE
team_members_team_id(rows, gone) == Cascade(rows, "team_id", gone)

\* team_members.user_id REFERENCES users(id) ON DELETE CASCADE
team_members_user_id(rows, gone) == Cascade(rows, "user_id", gone)

\* variant: the deletion of an owner is not checked
projects_owner_id_unchecked(rows, gone) == FALSE

\* projects.owner_id REFERENCES users(id) ON DELETE RESTRICT
projects_owner_id(rows, gone) == Restrict(rows, "owner_id", gone)

\* project_members.project_id REFERENCES projects(id) ON DELETE CASCADE
project_members_project_id(rows, gone) == Cascade(rows, "project_id", gone)

\* project_members.user_id REFERENCES users(id) ON DELETE CASCADE
project_members_user_id(rows, gone) == Cascade(rows, "user_id", gone)

\* milestones.project_id REFERENCES projects(id) ON DELETE CASCADE
milestones_project_id(rows, gone) == Cascade(rows, "project_id", gone)

\* variant: the reference is declared without a referential action
tasks_project_id_no_action(rows, gone) == rows

\* tasks.project_id REFERENCES projects(id) ON DELETE CASCADE
tasks_project_id(rows, gone) == Cascade(rows, "project_id", gone)

\* variant: ON DELETE CASCADE
tasks_milestone_id_cascade(rows, gone) == Cascade(rows, "milestone_id", gone)

\* tasks.milestone_id REFERENCES milestones(id) ON DELETE SET NULL
tasks_milestone_id(rows, gone) == SetNullTouch(rows, "milestone_id", gone)

\* variant: ON DELETE CASCADE
tasks_assignee_id_cascade(rows, gone) == Cascade(rows, "assignee_id", gone)

\* tasks.assignee_id REFERENCES users(id) ON DELETE SET NULL
tasks_assignee_id(rows, gone) == SetNullTouch(rows, "assignee_id", gone)

\* task_comments.task_id REFERENCES tasks(id) ON DELETE CASCADE
task_comments_task_id(rows, gone) == Cascade(rows, "task_id", gone)

\* variant: the reference is declared without a referential action
task_comments_user_id_no_action(rows, gone) == rows

\* task_comments.user_id REFERENCES users(id) ON DELETE CASCADE
task_comments_user_id(rows, gone) == Cascade(rows, "user_id", gone)

\* variant: the reference is declared without a referential action
activity_logs_user_id_no_action(rows, gone) == rows

\* variant: ON DELETE CASCADE
activity_logs_user_id_cascade(rows, gone) == Cascade(rows, "user_id", gone)

\* activity_logs.user_id REFERENCES users(id) ON DELETE SET NULL
\* (activity_logs has no updated_at column and no trigger)
activity_logs_user_id(rows, gone) == SetNull(rows, "user_id", gone)

\* activity_logs.project_id REFERENCES projects(id) ON DELETE CASCADE
activity_logs_project_id(rows, gone) == Cascade(rows, "project_id", gone)

\* variant: the column is declared without REFERENCES
time_logs_task_id_unreferenced(rows, gone) == rows

\* time_logs.task_id REFERENCES tasks(id) ON DELETE CASCADE
time_logs_task_id(rows, gone) == Cascade(rows, "task_id", gone)

\* time_logs.user_id REFERENCES users(id) ON DELETE CASCADE
time_logs_user_id(rows, gone) == Cascade(rows, "user_id", gone)

\* task_tags.task_id REFERENCES tasks(id) ON DELETE CASCADE
task_tags_task_id(rows, gone) == Cascade(rows, "task_id", gone)

\* variant: the column is declared without REFERENCES
task_tags_tag_id_unreferenced(rows, gone) == rows

\* task_tags.tag_id REFERENCES tags(id) ON DELETE CASCADE
task_tags_tag_id(rows, gone) == Cascade(rows, "tag_id", gone)

\* variant: the reference is declared without a referential action
attachments_task_id_no_action(rows, gone) == rows

\* attachments.task_id REFERENCES tasks(id) ON DELETE CASCADE
attachments_task_id(rows, gone) == Cascade(rows, "task_id", gone)

\* attachments.uploaded_by REFERENCES users(id) ON DELETE CASCADE
attachments_uploaded_by(rows, gone) == Cascade(rows, "uploaded_by", gone)

\* notifications.user_id REFERENCES users(id) ON DELETE CASCADE
notifications_user_id(rows, gone) == Cascade(rows, "user_id", gone)

(***************************************************************************)
(* DELETE statements: the parent rows go and every referencing table is    *)
(* rewritten by its foreign key, transitively, in one atomic statement.    *)
(* log is the content of activity_logs when the statement runs.            *)
(***************************************************************************)
\* the rows a DELETE FROM tasks removes take their dependents with them
DeleteTaskRows(gone) ==
  /\ task_comments' = task_comments_task_id(task_comments, gone)
  /\ time_logs' = time_logs_task_id(time_logs, gone)
  /\ task_tags' = task_tags_task_id(task_tags, gone)
  /\ attachments' = attachments_task_id(attachments, gone)

DELETE_users(u, log) ==
  /\ ~projects_owner_id(projects, {u})
  /\ users' = {r \in users : r.id # u}
  /\ teams' = teams_lead_id(teams, {u})
  /\ team_members' = team_members_user_id(team_members, {u})
  /\ project_members' = project_members_user_id(project_members, {u})
  /\ tasks' = tasks_assignee_id(tasks, {u})
  /\ task_comments' = task_comments_user_id(task_comments, {u})
  /\ activity_logs' = activity_logs_user_id(log, {u})
  /\ time_logs' = time_logs_user_id(time_logs, {u})
  /\ attachments' = attachments_uploaded_by(attachments, {u})
  /\ notifications' = notifications_user_id(notifications, {u})
  /\ UNCHANGED <<projects, milestones, tags, task_tags>>

DELETE_teams(t, log) ==
  /\ teams' = {r \in teams : r.id # t}
  /\ team_members' = team_members_team_id(team_members, {t})
  /\ activity_logs' = log
  /\ UNCHANGED <<users, projects, project_members, milestones, tasks,
                 task_comments, time_logs, tags, task_tags, attachments,
                 notifications>>

DELETE_projects(p, log) ==
  LET goneMilestones == Ids(milestones) \ Ids(milestones_project_id(milestones, {p}))
      goneTasks == Ids(tasks) \ Ids(tasks_project_id(tasks, {p}))
  IN /\ projects' = {r \in projects : r.id # p}
     /\ project_members' = project_members_project_id(project_members, {p})
     /\ milestones' = milestones_project_id(milestones, {p})
     /\ tasks' = tasks_milestone_id(tasks_project_id(tasks, {p}), goneMilestones)
     /\ DeleteTaskRows(goneTasks)
     /\ activity_logs' = activity_logs_project_id(log, {p})
     /\ UNCHANGED <<users, teams, team_members, tags, notifications>>

DELETE_milestones(m, log) ==
  /\ milestones' = {r \in milestones : r.id # m}
  /\ tasks' = tasks_milestone_id(tasks, {m})
  /\ activity_logs' = log
  /\ UNCHANGED <<users, teams, team_members, projects, project_members,
                 task_comments, time_logs, tags, task_tags, attachments,
                 notifications>>

DELETE_tasks(t, log) ==
  /\ tasks' = {r \in tasks : r.id # t}
  /\ DeleteTaskRows({t})
  /\ activity_logs' = log
  /\ UNCHANGED <<users, teams, team_members, projects, project_members,
                 milestones, tags, notifications>>

DELETE_tags(g, log) ==
  /\ tags' = {r \in tags : r.id # g}
  /\ task_tags' = task_tags_tag_id(task_tags, {g})
  /\ activity_logs' = log
  /\ UNCHANGED <<users, teams, team_members, projects, project_members,
                 milestones, tasks, task_comments, time_logs, attachments,
                 notifications>>

(***************************************************************************)
(* INSERT: the new row gets a fresh id; a NOT NULL reference must resolve, *)
(* a nullable one is NULL or resolves; UNIQUE keys are checked.            *)
(***************************************************************************)
Resolves(id, rows) == id \in Ids(rows)

NullOrResolves(id, rows) == id = NULL \/ Resolves(id, rows)

TagNames == {"bug", "feature"}

\* hours are held in hundredths of an hour (REAL in the schema)
HoursInputs == {25}

\* UNIQUE(team_id, user_id)
team_members_unique(t, u) ==
  ~\E r \in team_members : r.team_id = t /\ r.user_id = u

\* UNIQUE(project_id, user_id)
project_members_unique(p, u) ==
  ~\E r \in project_members : r.project_id = p /\ r.user_id = u

\* UNIQUE(task_id, tag_id)
task_tags_unique(t, g) ==
  ~\E r \in task_tags : r.task_id = t /\ r.tag_id = g

\* tags.name UNIQUE
tags_name_unique(n) == ~\E r \in tags : r.name = n

(***************************************************************************)
(* Activity Recorder: append(actor?, project?, action, entity_type,        *)
(* entity_id, detail?) inserts one activity_logs row, created_at = NOW().  *)
(***************************************************************************)
NoDetails == [from |-> "", to |-> ""]

append(log, a, p, action, etype, eid, det) ==
  log \cup {[id |-> nextId.activity_logs, user_id |-> a, project_id |-> p,
             action |-> action, entity_type |-> etype, entity_id |-> eid,
             details |-> det, created_at |-> now]}

\* the authenticated actor of a request: an existing user, or none
Actors == {NULL} \cup Ids(users)

\* the number of requests of a run is bounded
CanAct == ops < MaxOps

Bump(table) == [nextId EXCEPT ![table] = @ + 1, !.activity_logs = @ + 1]

BumpOnly(table) == [nextId EXCEPT ![table] = @ + 1]

ProjectOfTask(t) == (CHOOSE r \in tasks : r.id = t).project_id

(***************************************************************************)
(* createEntity                                                            *)
(***************************************************************************)
CreateUser(a) ==
  /\ CanAct
  /\ users' = users \cup {[id |-> nextId.users]}
  /\ activity_logs' = append(activity_logs, a, NULL, "created", "user",
                             nextId.users, NoDetails)
  /\ nextId' = Bump("users")
  /\ result' = "Ok"
  /\ ops' = ops + 1 /\ UNCHANGED elsewhere
  /\ UNCHANGED <<teams, team_members, projects, project_members, milestones,
                 tasks, task_comments, time_logs, tags, task_tags, attachments,
                 notifications, now>>

CreateTeam(a, lead) ==
  /\ CanAct
  /\ NullOrResolves(lead, users)
  /\ teams' = teams \cup {[id |-> nextId.teams, lead_id |-> lead,
                           updated_at |-> now]}
  /\ activity_logs' = append(activity_logs, a, NULL, "created", "team",
                             nextId.teams, NoDetails)
  /\ nextId' = Bump("teams")
  /\ result' = "Ok"
  /\ ops' = ops + 1 /\ UNCHANGED elsewhere
  /\ UNCHANGED <<users, team_members, projects, project_members, milestones,
                 tasks, task_comments, time_logs, tags, task_tags, attachments,
                 notifications, now>>

AddTeamMember(t, u) ==
  /\ CanAct
  /\ Resolves(t, teams) /\ Resolves(u, users)
  /\ team_members_unique(t, u)
  /\ team_members' = team_members \cup
       {[id |-> nextId.team_members, team_id |-> t, user_id |-> u]}
  /\ nextId' = BumpOnly("team_members")
  /\ result' = "Ok"
  /\ ops' = ops + 1 /\ UNCHANGED elsewhere
  /\ UNCHANGED <<users, teams, projects, project_members, milestones, tasks,
                 task_comments, activity_logs, time_logs, tags, task_tags,
                 attachments, notifications, now>>

\* variant: owner_id is declared without REFERENCES
projects_owner_id_fkey_unchecked(owner) == TRUE

\* INSERT INTO projects: owner_id UUID NOT NULL REFERENCES users(id)
projects_owner_id_fkey(owner) == Resolves(owner, users)

CreateProject(a, owner) ==
  /\ CanAct
  /\ projects_owner_id_fkey(owner)
  /\ projects' = projects \cup {[id |-> nextId.projects, owner_id |-> owner,
                                 updated_at |-> now]}
  /\ activity_logs' = append(activity_logs, a, nextId.projects, "created",
                             "project", nextId.projects, NoDetails)
  /\ nextId' = Bump("projects")
  /\ result' = "Ok"
  /\ ops' = ops + 1 /\ UNCHANGED elsewhere
  /\ UNCHANGED <<users, teams, team_members, project_members, milestones,
                 tasks, task_comments, time_logs, tags, task_tags, attachments,
                 notifications, now>>

AddProjectMember(p, u) ==
  /\ CanAct
  /\ Resolves(p, projects) /\ Resolves(u, users)
  /\ project_members_unique(p, u)
  /\ project_members' = project_members \cup
       {[id |-> nextId.project_members, project_id |-> p, user_id |-> u]}
  /\ nextId' = BumpOnly("project_members")
  /\ result' = "Ok"
  /\ ops' = ops + 1 /\ UNCHANGED elsewhere
  /\ UNCHANGED <<users, teams, team_members, projects, milestones, tasks,
                 task_comments, activity_logs, time_logs, tags, task_tags,
                 attachments, notifications, now>>

CreateMilestone(a, p) ==
  /\ CanAct
  /\ Resolves(p, projects)
  /\ milestones' = milestones \cup {[id |-> nextId.milestones, project_id |-> p]}
  /\ activity_logs' = append(activity_logs, a, p, "created", "milestone",
                             nextId.milestones, NoDetails)
  /\ nextId' = Bump("milestones")
  /\ result' = "Ok"
  /\ ops' = ops + 1 /\ UNCHANGED elsewhere
  /\ UNCHANGED <<users, teams, team_members, projects, project_members, tasks,
                 task_comments, time_logs, tags, task_tags, attachments,
                 notifications, now>>

\* status takes the column DEFAULT 'todo'; no hours are estimated
CreateTask(a, p, m, assignee) ==
  /\ CanAct
  /\ Resolves(p, projects)
  /\ NullOrResolves(m, milestones)
  /\ NullOrResolves(assignee, users)
  /\ tasks' = tasks \cup {[id |-> nextId.tasks, project_id |-> p,
                           milestone_id |-> m, title |-> "task",
                           status |-> "todo", assignee_id |-> assignee,
                           estimated_hours |-> NULL, actual_hours |-> NULL,
                           updated_at |-> now]}
  /\ activity_logs' = append(activity_logs, a, p, "created", "task",
                             nextId.tasks, NoDetails)
  /\ nextId' = Bump("tasks")
  /\ result' = "Ok"
  /\ ops' = ops + 1 /\ UNCHANGED elsewhere
  /\ UNCHANGED <<users, teams, team_members, projects, project_members,
                 milestones, task_comments, time_logs, tags, task_tags,
                 attachments, notifications, now>>

\* the author of a comment is the authenticated actor
CreateComment(a, t) ==
  /\ CanAct
  /\ Resolves(t, tasks) /\ Resolves(a, users)
  /\ task_comments' = task_comments \cup
       {[id |-> nextId.task_comments, task_id |-> t, user_id |-> a]}
  /\ activity_logs' = append(activity_logs, a, ProjectOfTask(t), "commented",
                             "comment", nextId.task_comments, NoDetails)
  /\ nextId' = Bump("task_comments")
  /\ result' = "Ok"
  /\ ops' = ops + 1 /\ UNCHANGED elsewhere
  /\ UNCHANGED <<users, teams, team_members, projects, project_members,
                 milestones, tasks, time_logs, tags, task_tags, attachments,
                 notifications, now>>

\* Time Ledger: an entry is a quarter-hour multiple from 0.25 to 24 hours
\* variant: only the lower limit is checked
ValidHours_at_least_quarter(h) == h >= 25

ValidHours(h) == h >= 25 /\ h <= 2400 /\ h % 25 = 0

\* variant: the hours are stored rounded up to whole hours
RecordTime_whole_hours(a, t, h) ==
  IF ValidHours(h)
    THEN /\ time_logs' = time_logs \cup
              {[id |-> nextId.time_logs, task_id |-> t, user_id |-> a,
                hours |-> ((h + 99) \div 100) * 100]}
         /\ activity_logs' = append(activity_logs, a, ProjectOfTask(t),
                                    "created", "time_log", nextId.time_logs,
                                    NoDetails)
         /\ nextId' = Bump("time_logs")
         /\ result' = "Ok"
         /\ UNCHANGED <<users, teams, team_members, projects, project_members,
                        milestones, tasks, task_comments, tags, task_tags,
                        attachments, notifications>>
    ELSE /\ result' = "ValidationError"
         /\ UNCHANGED <<store, nextId>>

\* recordTime: the entry and its audit row, or a ValidationError and nothing
RecordTime(a, t, h) ==
  IF ValidHours(h)
    THEN /\ time_logs' = time_logs \cup
              {[id |-> nextId.time_logs, task_id |-> t, user_id |-> a,
                hours |-> h]}
         /\ activity_logs' = append(activity_logs, a, ProjectOfTask(t),
                                    "created", "time_log", nextId.time_logs,
                                    NoDetails)
         /\ nextId' = Bump("time_logs")
         /\ result' = "Ok"
         /\ UNCHANGED <<users, teams, team_members, projects, project_members,
                        milestones, tasks, task_comments, tags, task_tags,
                        attachments, notifications>>
    ELSE /\ result' = "ValidationError"
         /\ UNCHANGED <<store, nextId>>

\* timeLogsApi.create carries no user_id: the entry belongs to the actor
CreateTimeLog(a, t, h) ==
  /\ CanAct
  /\ Resolves(t, tasks) /\ Resolves(a, users)
  /\ RecordTime(a, t, h)
  /\ ops' = ops + 1 /\ UNCHANGED elsewhere
  /\ UNCHANGED now

CreateTag(a, n) ==
  /\ CanAct
  /\ tags_name_unique(n)
  /\ tags' = tags \cup {[id |-> nextId.tags, name |-> n]}
  /\ activity_logs' = append(activity_logs, a, NULL, "created", "tag",
                             nextId.tags, NoDetails)
  /\ nextId' = Bump("tags")
  /\ result' = "Ok"
  /\ ops' = ops + 1 /\ UNCHANGED elsewhere
  /\ UNCHANGED <<users, teams, team_members, projects, project_members,
                 milestones, tasks, task_comments, time_logs, task_tags,
                 attachments, notifications, now>>

AddTagToTask(t, g) ==
  /\ CanAct
  /\ Resolves(t, tasks) /\ Resolves(g, tags)
  /\ task_tags_unique(t, g)
  /\ task_tags' = task_tags \cup
       {[id |-> nextId.task_tags, task_id |-> t, tag_id |-> g]}
  /\ nextId' = BumpOnly("task_tags")
  /\ result' = "Ok"
  /\ ops' = ops + 1 /\ UNCHANGED elsewhere
  /\ UNCHANGED <<users, teams, team_members, projects, project_members,
                 milestones, tasks, task_comments, activity_logs, time_logs,
                 tags, attachments, notifications, now>>

\* attachmentsApi.upload: uploaded_by is the actor
CreateAttachment(a, t) ==
  /\ CanAct
  /\ Resolves(t, tasks) /\ Resolves(a, users)
  /\ attachments' = attachments \cup
       {[id |-> nextId.attachments, task_id |-> t, uploaded_by |-> a]}
  /\ activity_logs' = append(activity_logs, a, ProjectOfTask(t), "created",
                             "attachment", nextId.attachments, NoDetails)
  /\ nextId' = Bump("attachments")
  /\ result' = "Ok"
  /\ ops' = ops + 1 /\ UNCHANGED elsewhere
  /\ UNCHANGED <<users, teams, team_members, projects, project_members,
                 milestones, tasks, task_comments, time_logs, tags, task_tags,
                 notifications, now>>

\* Notification Trigger: a row for an interested user
Notify(u) ==
  /\ CanAct
  /\ Resolves(u, users)
  /\ notifications' = notifications \cup
       {[id |-> nextId.notifications, user_id |-> u]}
  /\ nextId' = BumpOnly("notifications")
  /\ result' = "Ok"
  /\ ops' = ops + 1 /\ UNCHANGED elsewhere
  /\ UNCHANGED <<users, teams, team_members, projects, project_members,
                 milestones, tasks, task_comments, activity_logs, time_logs,
                 tags, task_tags, attachments, now>>

RECURSIVE SumHours(_)
SumHours(rows) ==
  IF rows = {} THEN 0
  ELSE LET r == CHOOSE x \in rows : TRUE
       IN r.hours + SumHours(rows \ {r})

\* Time Ledger total(task_id), computed from the entries on demand
total(rows, t) == SumHours({r \in rows : r.task_id = t})

(***************************************************************************)
(* updateEntity / transitionTask.  An UPDATE of a tasks or projects row    *)
(* fires the updated_at trigger.                                           *)
(***************************************************************************)
TaskRow(t) == CHOOSE r \in tasks : r.id = t

\* a JSON detail value: a status name, or an id written as a string
IdStr(id) == IF id = NULL THEN "null" ELSE ToString(id)

\* the task has been set to done before, as the audit trail tells
EverDone(t) ==
  \E e \in activity_logs :
    /\ e.action = "status_changed" /\ e.entity_type = "task"
    /\ e.entity_id = t /\ e.details.to = "done"

\* variant: every transition to done derives the hours from the ledger
DefaultsHours_every_done(t, new_status) == new_status = "done"

\* actual_hours is derived when the task is set to done for the first time
DefaultsHours(t, new_status) ==
  new_status = "done" /\ TaskRow(t).status # "done" /\ ~EverDone(t)

\* the detail of an assigned event, as the activity feed reads it:
\* details?.assignee
AssignedDetails(previous, assignee) == [assignee |-> IdStr(assignee)]

\* the audit rows of an update of a task: status_changed {from, to},
\* assigned, or updated when neither changed
TaskEvents(row, status, assignee) ==
  LET status_changed ==
        IF status # row.status
          THEN <<[action |-> "status_changed",
                  details |-> [from |-> row.status, to |-> status]]>>
          ELSE <<>>
      assigned ==
        IF assignee # row.assignee_id
          THEN <<[action |-> "assigned",
                  details |-> AssignedDetails(row.assignee_id, assignee)]>>
          ELSE <<>>
  IN IF status_changed \o assigned # <<>>
       THEN status_changed \o assigned
       ELSE <<[action |-> "updated", details |-> NoDetails]>>

\* updateTask: patch holds the fields the caller supplies, among status,
\* assignee_id and actual_hours
UpdateTask(a, t, patch) ==
  LET row == TaskRow(t)
      status == IF "status" \in DOMAIN patch THEN patch.status ELSE row.status
      assignee == IF "assignee_id" \in DOMAIN patch
                    THEN patch.assignee_id ELSE row.assignee_id
      hours == IF "actual_hours" \in DOMAIN patch THEN patch.actual_hours
               ELSE IF DefaultsHours(t, status) THEN total(time_logs, t)
               ELSE row.actual_hours
      changed == [row EXCEPT !.status = status, !.assignee_id = assignee,
                             !.actual_hours = hours]
      events == TaskEvents(row, status, assignee)
  IN /\ CanAct
     /\ Resolves(t, tasks)
     /\ status \in task_status
     /\ NullOrResolves(assignee, users)
     /\ changed # row
     /\ tasks' = {IF r.id = t THEN update_updated_at_column(changed) ELSE r :
                   r \in tasks}
     /\ activity_logs' = activity_logs \cup
          {[id |-> nextId.activity_logs + i - 1, user_id |-> a,
            project_id |-> row.project_id, action |-> events[i].action,
            entity_type |-> "task", entity_id |-> t,
            details |-> events[i].details, created_at |-> now] :
             i \in DOMAIN events}
     /\ nextId' = [nextId EXCEPT !.activity_logs = @ + Len(events)]
     /\ result' = "Ok"
     /\ ops' = ops + 1 /\ UNCHANGED elsewhere
     /\ UNCHANGED <<users, teams, team_members, projects, project_members,
                    milestones, task_comments, time_logs, tags, task_tags,
                    attachments, notifications, now>>

\* variant: the audit row takes from after the status is written
TransitionTask_from_new(a, t, new_status) ==
  /\ CanAct
  /\ Resolves(t, tasks)
  /\ new_status # TaskRow(t).status
  /\ tasks' = {IF r.id = t
                 THEN update_updated_at_column([r EXCEPT !.status = new_status])
                 ELSE r : r \in tasks}
  /\ activity_logs' = append(activity_logs, a, ProjectOfTask(t),
                             "status_changed", "task", t,
                             [from |-> new_status, to |-> new_status])
  /\ nextId' = [nextId EXCEPT !.activity_logs = @ + 1]
  /\ result' = "Ok"
  /\ ops' = ops + 1 /\ UNCHANGED elsewhere
  /\ UNCHANGED <<users, teams, team_members, projects, project_members,
                 milestones, task_comments, time_logs, tags, task_tags,
                 attachments, notifications, now>>

\* a transition sets the status to another one (handleDrop sends no request
\* for a drop on the task's own column)
TransitionTask(a, t, new_status) ==
  /\ Resolves(t, tasks)
  /\ new_status # TaskRow(t).status
  /\ UpdateTask(a, t, [status |-> new_status])

AssignTask(a, t, u) ==
  /\ Resolves(t, tasks)
  /\ u # TaskRow(t).assignee_id
  /\ UpdateTask(a, t, [assignee_id |-> u])

\* ownership is reassigned by an update of the project
ReassignOwner(a, p, u) ==
  /\ CanAct
  /\ Resolves(p, projects)
  /\ Resolves(u, users)
  /\ u # (CHOOSE r \in projects : r.id = p).owner_id
  /\ projects' = {IF r.id = p
                    THEN update_updated_at_column([r EXCEPT !.owner_id = u])
                    ELSE r : r \in projects}
  /\ activity_logs' = append(activity_logs, a, p, "updated", "project", p,
                             NoDetails)
  /\ nextId' = [nextId EXCEPT !.activity_logs = @ + 1]
  /\ result' = "Ok"
  /\ ops' = ops + 1 /\ UNCHANGED elsewhere
  /\ UNCHANGED <<users, teams, team_members, project_members, milestones,
                 tasks, task_comments, time_logs, tags, task_tags,
                 attachments, notifications, now>>

(***************************************************************************)
(* deleteEntity: the audit row and the DELETE statement are one            *)
(* transaction.  A restrict violation aborts it: ReferentialConflict.      *)
(***************************************************************************)
DeleteUser(a, u) ==
  /\ Resolves(u, users)
  /\ IF projects_owner_id(projects, {u})
       THEN /\ CanAct
            /\ result' = "ReferentialConflict"
            /\ ops' = ops + 1
            /\ UNCHANGED <<store, nextId, now, elsewhere>>
       ELSE /\ CanAct
            /\ DELETE_users(u, append(activity_logs, a, NULL, "deleted",
                                      "user", u, NoDetails))
            /\ nextId' = [nextId EXCEPT !.activity_logs = @ + 1]
            /\ result' = "Ok"
            /\ ops' = ops + 1 /\ UNCHANGED elsewhere
            /\ UNCHANGED now

DeleteTeam(a, t) ==
  /\ CanAct
  /\ Resolves(t, teams)
  /\ DELETE_teams(t, append(activity_logs, a, NULL, "deleted", "team", t,
                            NoDetails))
  /\ nextId' = [nextId EXCEPT !.activity_logs = @ + 1]
  /\ result' = "Ok"
  /\ ops' = ops + 1 /\ UNCHANGED elsewhere
  /\ UNCHANGED now

\* the audit row of a project's deletion cannot reference the project
DeleteProject(a, p) ==
  /\ CanAct
  /\ Resolves(p, projects)
  /\ DELETE_projects(p, append(activity_logs, a, NULL, "deleted", "project",
                               p, NoDetails))
  /\ nextId' = [nextId EXCEPT !.activity_logs = @ + 1]
  /\ result' = "Ok"
  /\ ops' = ops + 1 /\ UNCHANGED elsewhere
  /\ UNCHANGED now

\* variant: the handler writes no audit row
DeleteMilestone_unaudited(a, m) ==
  /\ CanAct
  /\ Resolves(m, milestones)
  /\ DELETE_milestones(m, activity_logs)
  /\ result' = "Ok"
  /\ ops' = ops + 1 /\ UNCHANGED <<elsewhere, nextId, now>>

DeleteMilestone(a, m) ==
  /\ CanAct
  /\ Resolves(m, milestones)
  /\ DELETE_milestones(m, append(activity_logs, a,
                                 (CHOOSE r \in milestones : r.id = m).project_id,
                                 "deleted", "milestone", m, NoDetails))
  /\ nextId' = [nextId EXCEPT !.activity_logs = @ + 1]
  /\ result' = "Ok"
  /\ ops' = ops + 1 /\ UNCHANGED elsewhere
  /\ UNCHANGED now

DeleteTask(a, t) ==
  /\ CanAct
  /\ Resolves(t, tasks)
  /\ DELETE_tasks(t, append(activity_logs, a, ProjectOfTask(t), "deleted",
                            "task", t, NoDetails))
  /\ nextId' = [nextId EXCEPT !.activity_logs = @ + 1]
  /\ result' = "Ok"
  /\ ops' = ops + 1 /\ UNCHANGED elsewhere
  /\ UNCHANGED now

DeleteTag(a, g) ==
  /\ CanAct
  /\ Resolves(g, tags)
  /\ DELETE_tags(g, append(activity_logs, a, NULL, "deleted", "tag", g,
                           NoDetails))
  /\ nextId' = [nextId EXCEPT !.activity_logs = @ + 1]
  /\ result' = "Ok"
  /\ ops' = ops + 1 /\ UNCHANGED elsewhere
  /\ UNCHANGED now

\* DELETE FROM time_logs: no table references time_logs
DELETE_time_logs(e, log) ==
  /\ time_logs' = {r \in time_logs : r.id # e}
  /\ activity_logs' = log
  /\ UNCHANGED <<users, teams, team_members, projects, project_members,
                 milestones, tasks, task_comments, tags, task_tags,
                 attachments, notifications>>

\* Time Ledger delete(entry_id), without the request counter
RemoveTime(a, e) ==
  /\ DELETE_time_logs(e, append(activity_logs, a,
        ProjectOfTask((CHOOSE r \in time_logs : r.id = e).task_id),
        "deleted", "time_log", e, NoDetails))
  /\ nextId' = [nextId EXCEPT !.activity_logs = @ + 1]
  /\ result' = "Ok"

DeleteTimeLog(a, e) ==
  /\ CanAct
  /\ Resolves(e, time_logs)
  /\ RemoveTime(a, e)
  /\ ops' = ops + 1 /\ UNCHANGED elsewhere
  /\ UNCHANGED now

\* NOW() moves on between transactions
Tick ==
  /\ now < MaxClock
  /\ now' = now + 1
  /\ UNCHANGED <<store, nextId, result, ops, elsewhere>>

(***************************************************************************)
(* The database at the start: the empty one schema.sql creates, or a       *)
(* populated one.  The populated one holds rows of seed.sql (the manager   *)
(* as user 1 and the first developer as user 2, the Engineering team, the  *)
(* Website Redesign project, its Development Phase milestone, the task     *)
(* "Implement homepage", a comment, the two audit rows about them) and,    *)
(* for the tables seed.sql leaves empty, one row each that the developer   *)
(* added to the task.  session is the authenticated actor of the run's     *)
(* requests.                                                               *)
(***************************************************************************)
EmptyDb ==
  /\ users = {} /\ teams = {} /\ team_members = {} /\ projects = {}
  /\ project_members = {} /\ milestones = {} /\ tasks = {}
  /\ task_comments = {} /\ activity_logs = {} /\ time_logs = {} /\ tags = {}
  /\ task_tags = {} /\ attachments = {} /\ notifications = {}
  /\ nextId = [users |-> 1, teams |-> 1, team_members |-> 1, projects |-> 1,
               project_members |-> 1, milestones |-> 1, tasks |-> 1,
               task_comments |-> 1, activity_logs |-> 1, time_logs |-> 1,
               tags |-> 1, task_tags |-> 1, attachments |-> 1,
               notifications |-> 1]

PopulatedDb ==
  /\ users = {[id |-> 1], [id |-> 2]}
  /\ teams = {[id |-> 1, lead_id |-> 1, updated_at |-> 0]}
  /\ team_members = {[id |-> 1, team_id |-> 1, user_id |-> 2]}
  /\ projects = {[id |-> 1, owner_id |-> 1, updated_at |-> 0]}
  /\ project_members = {[id |-> 1, project_id |-> 1, user_id |-> 2]}
  /\ milestones = {[id |-> 1, project_id |-> 1]}
  /\ tasks = {[id |-> 1, project_id |-> 1, milestone_id |-> 1,
               title |-> "Implement homepage", status |-> "inprogress",
               assignee_id |-> 2, estimated_hours |-> 2400,
               actual_hours |-> NULL, updated_at |-> 0]}
  /\ task_comments = {[id |-> 1, task_id |-> 1, user_id |-> 2]}
  /\ activity_logs =
       {[id |-> 1, user_id |-> 1, project_id |-> 1, action |-> "created",
         entity_type |-> "project", entity_id |-> 1, details |-> NoDetails,
         created_at |-> 0],
        [id |-> 2, user_id |-> 2, project_id |-> 1,
         action |-> "status_changed", entity_type |-> "task", entity_id |-> 1,
         details |-> [from |-> "todo", to |-> "inprogress"], created_at |-> 0]}
  /\ time_logs = {[id |-> 1, task_id |-> 1, user_id |-> 2, hours |-> 25]}
  /\ tags = {[id |-> 1, name |-> "bug"]}
  /\ task_tags = {[id |-> 1, task_id |-> 1, tag_id |-> 1]}
  /\ attachments = {[id |-> 1, task_id |-> 1, uploaded_by |-> 2]}
  /\ notifications = {[id |-> 1, user_id |-> 2]}
  /\ nextId = [users |-> 3, teams |-> 2, team_members |-> 2, projects |-> 2,
               project_members |-> 2, milestones |-> 2, tasks |-> 2,
               task_comments |-> 2, activity_logs |-> 3, time_logs |-> 2,
               tags |-> 2, task_tags |-> 2, attachments |-> 2,
               notifications |-> 2]

Writers == {1, 2}

Idle == [pc |-> "idle"]

\* no transaction is open and nothing has been read
Quiet ==
  /\ txn = [w \in Writers |-> Idle] /\ cascade = Idle /\ seen = <<>>
  /\ insertion = <<>> /\ pages = <<>>

\* JavaScript null, among values that are strings
null == "null"

\* the auth store as created, and an empty localStorage
SignedOut ==
  /\ user = null /\ token = null /\ isAuthenticated = FALSE
  /\ localStorage = [token |-> null, user |-> null]
  /\ location = "/login"
  /\ calls = <<>>

\* no component is mounted and no request has been sent
Unmounted == state = <<>> /\ requests = <<>> /\ backend = <<>>

\* nothing has happened in the browser
BrowserIdle == SignedOut /\ Unmounted

\* no timesheet page is open
PageClosed == activeTimer = NULL /\ timerElapsed = 0 /\ timeLogs = <<>>

Init ==
  /\ EmptyDb \/ PopulatedDb
  /\ session \in Actors
  /\ now = 0
  /\ result = "None"
  /\ ops = 0
  /\ PageClosed /\ BrowserIdle
  /\ Quiet

\* the run's actor, while the user it names exists
Actor == {session} \cap Actors

Next ==
  \/ \E a \in Actor : CreateUser(a)
  \/ \E a \in Actor, lead \in {NULL} \cup Ids(users) : CreateTeam(a, lead)
  \/ \E t \in Ids(teams), u \in Ids(users) : AddTeamMember(t, u)
  \/ \E a \in Actor, owner \in Ids(users) : CreateProject(a, owner)
  \/ \E p \in Ids(projects), u \in Ids(users) : AddProjectMember(p, u)
  \/ \E a \in Actor, p \in Ids(projects) : CreateMilestone(a, p)
  \/ \E a \in Actor, p \in Ids(projects), m \in {NULL} \cup Ids(milestones),
        u \in {NULL} \cup Ids(users) : CreateTask(a, p, m, u)
  \/ \E a \in Actor, t \in Ids(tasks) : CreateComment(a, t)
  \/ \E a \in Actor, t \in Ids(tasks), h \in HoursInputs : CreateTimeLog(a, t, h)
  \/ \E a \in Actor, n \in TagNames : CreateTag(a, n)
  \/ \E t \in Ids(tasks), g \in Ids(tags) : AddTagToTask(t, g)
  \/ \E a \in Actor, t \in Ids(tasks) : CreateAttachment(a, t)
  \/ \E u \in Ids(users) : Notify(u)
  \/ \E a \in Actor, t \in Ids(tasks), s \in task_status : TransitionTask(a, t, s)
  \/ \E a \in Actor, t \in Ids(tasks), u \in {NULL} \cup Ids(users) :
        AssignTask(a, t, u)
  \/ \E a \in Actor, p \in Ids(projects), u \in Ids(users) : ReassignOwner(a, p, u)
  \/ \E a \in Actor, u \in Ids(users) : DeleteUser(a, u)
  \/ \E a \in Actor, t \in Ids(teams) : DeleteTeam(a, t)
  \/ \E a \in Actor, p \in Ids(projects) : DeleteProject(a, p)
  \/ \E a \in Actor, m \in Ids(milestones) : DeleteMilestone(a, m)
  \/ \E a \in Actor, t \in Ids(tasks) : DeleteTask(a, t)
  \/ \E a \in Actor, g \in Ids(tags) : DeleteTag(a, g)
  \/ Tick

Spec == Init /\ [][Next]_vars

(***************************************************************************)
(* The timesheet page and the Time Ledger.  The page keeps the entries the *)
(* server answered (timeLogs, newest first) and a timer (activeTimer is    *)
(* the task, timerElapsed the seconds the interval callback last           *)
(* computed).  A handler that awaits the server runs with the request as   *)
(* one step.                                                               *)
(***************************************************************************)
\* requests any client may send, in hundredths of an hour: 0, 0.1, 0.25, 24
\* and 24.25 hours
HoursRequests == {0, 10, 25, 2400, 2425}

\* what the user types into the Hours field
TypedHours == {10, 25, 150, 2425}

\* <Input type="number" step="0.25" min="0.25" max="24" required>: the form
\* is submitted only with a value the field accepts
HoursField(h) == h >= 25 /\ h <= 2400 /\ (h - 25) % 25 = 0

\* seconds on the timer when it is stopped: 7:29, 7:30, 24:00:00, 24:07:30
ElapsedInputs == {449, 450, 86400, 86850}

\* Math.round((timerElapsed / 3600) * 4) / 4, in hundredths of an hour
HoursOfTimer(seconds) == ((seconds + 450) \div 900) * 25

RECURSIVE NewestFirst(_)
NewestFirst(rows) ==
  IF rows = {} THEN <<>>
  ELSE LET r == CHOOSE x \in rows : \A y \in rows : y.id <= x.id
       IN <<r>> \o NewestFirst(rows \ {r})

\* loadTimeLogs: setTimeLogs(response.data)
loadTimeLogs ==
  /\ timeLogs # NewestFirst(time_logs)
  /\ timeLogs' = NewestFirst(time_logs)
  /\ UNCHANGED <<store, nextId, now, result, ops, session, activeTimer,
                 timerElapsed, inflight, feed,
                 browser>>

\* timeLogsApi.create, then setTimeLogs([response.data, ...timeLogs]); a
\* rejected request only raises the alert
AddEntry(t, h) ==
  /\ CanAct
  /\ Resolves(t, tasks) /\ Resolves(session, users)
  /\ RecordTime(session, t, h)
  /\ ops' = ops + 1
  /\ timeLogs' = IF result' = "Ok"
                   THEN <<CHOOSE r \in time_logs' : r.id = nextId.time_logs>>
                        \o timeLogs
                   ELSE timeLogs

\* the modal's Save
handleAddEntry(t, h) ==
  /\ HoursField(h)
  /\ AddEntry(t, h)
  /\ UNCHANGED <<session, now, activeTimer, timerElapsed, inflight, feed,
                 browser>>

SeqIds(q) == {q[i].id : i \in DOMAIN q}

RECURSIVE Without(_, _)
Without(q, id) ==
  IF q = <<>> THEN <<>>
  ELSE IF Head(q).id = id THEN Without(Tail(q), id)
  ELSE <<Head(q)>> \o Without(Tail(q), id)

\* timeLogsApi.delete(id), then the entry leaves the page's list
handleDeleteEntry(id) ==
  /\ CanAct
  /\ id \in SeqIds(timeLogs)
  /\ Resolves(id, time_logs) /\ Resolves(session, users)
  /\ RemoveTime(session, id)
  /\ ops' = ops + 1
  /\ timeLogs' = Without(timeLogs, id)
  /\ UNCHANGED <<session, now, activeTimer, timerElapsed, inflight, feed,
                 browser>>

handleStartTimer(t) ==
  /\ activeTimer = NULL
  /\ Resolves(t, tasks)
  /\ activeTimer' = t
  /\ timerElapsed' = 0
  /\ UNCHANGED <<store, nextId, now, result, ops, session, timeLogs,
                 inflight, feed,
                 browser>>

\* the interval callback: the seconds since the timer started
timerInterval(seconds) ==
  /\ activeTimer # NULL
  /\ seconds > timerElapsed
  /\ timerElapsed' = seconds
  /\ UNCHANGED <<store, nextId, now, result, ops, session, timeLogs,
                 activeTimer, inflight, feed,
                 browser>>

\* an entry is sent when the rounded hours are at least 0.25
handleStopTimer ==
  /\ activeTimer # NULL
  /\ IF HoursOfTimer(timerElapsed) >= 25
       THEN AddEntry(activeTimer, HoursOfTimer(timerElapsed))
       ELSE UNCHANGED <<store, nextId, result, ops, timeLogs>>
  /\ activeTimer' = NULL
  /\ timerElapsed' = 0
  /\ UNCHANGED <<session, now, inflight, feed,
                 browser>>

LedgerInit ==
  /\ PopulatedDb
  /\ session \in Ids(users)
  /\ now = 0
  /\ result = "None"
  /\ ops = 0
  /\ PageClosed /\ BrowserIdle
  /\ Quiet

LedgerNext ==
  \/ loadTimeLogs
  \/ \E t \in Ids(tasks), h \in TypedHours : handleAddEntry(t, h)
  \/ \E id \in Ids(time_logs) : handleDeleteEntry(id)
  \/ \E t \in Ids(tasks) : handleStartTimer(t)
  \/ \E seconds \in ElapsedInputs : timerInterval(seconds)
  \/ handleStopTimer
  \/ \E a \in Actor, t \in Ids(tasks), h \in HoursRequests :
        CreateTimeLog(a, t, h)
  \/ \E a \in Actor, e \in Ids(time_logs) : DeleteTimeLog(a, e)
  \/ \E a \in Actor, p \in Ids(projects) : CreateTask(a, p, NULL, NULL)

LedgerSpec == LedgerInit /\ [][LedgerNext]_vars

(***************************************************************************)
(* Concurrent writers on the keys the schema declares UNIQUE.  A writer's  *)
(* transaction is an INSERT and then COMMIT or ROLLBACK; the inserted row  *)
(* is in no table until the COMMIT.  The unique index is checked by the    *)
(* INSERT: against a committed row with the key it fails with a unique     *)
(* violation, behind an open transaction that inserted the key it waits    *)
(* for that transaction to end.                                            *)
(***************************************************************************)
UniqueTables == {"team_members", "project_members", "task_tags", "tags"}

\* the keys an INSERT may carry: its references resolve
Keys(table) ==
  CASE table = "team_members" -> Ids(teams) \X Ids(users)
    [] table = "project_members" -> Ids(projects) \X Ids(users)
    [] table = "task_tags" -> Ids(tasks) \X Ids(tags)
    [] table = "tags" -> {<<n>> : n \in TagNames}

\* no committed row has the key
KeyFree(table, key) ==
  CASE table = "team_members" -> team_members_unique(key[1], key[2])
    [] table = "project_members" -> project_members_unique(key[1], key[2])
    [] table = "task_tags" -> task_tags_unique(key[1], key[2])
    [] table = "tags" -> tags_name_unique(key[1])

\* variant: the index is not consulted for rows of open transactions
IndexLocked_unchecked(w, table, key) == FALSE

\* another open transaction has inserted the key
IndexLocked(w, table, key) ==
  \E w2 \in Writers \ {w} :
    /\ txn[w2].pc = "open"
    /\ txn[w2].table = table
    /\ txn[w2].key = key

INSERT(w, table, key) ==
  /\ CanAct
  /\ txn[w].pc # "open"
  /\ ~IndexLocked(w, table, key)
  /\ IF KeyFree(table, key)
       THEN /\ txn' = [txn EXCEPT ![w] = [pc |-> "open", table |-> table,
                                          key |-> key, id |-> nextId[table]]]
            /\ nextId' = BumpOnly(table)
            /\ UNCHANGED result
       ELSE /\ txn' = [txn EXCEPT ![w] = [pc |-> "failed", table |-> table,
                                          key |-> key]]
            /\ result' = "ValidationError"
            /\ UNCHANGED nextId
  /\ ops' = ops + 1
  /\ UNCHANGED <<store, now, client, cascade, seen, feed>>

\* the row of an open transaction
RowOf(t) ==
  CASE t.table = "team_members" ->
         [id |-> t.id, team_id |-> t.key[1], user_id |-> t.key[2]]
    [] t.table = "project_members" ->
         [id |-> t.id, project_id |-> t.key[1], user_id |-> t.key[2]]
    [] t.table = "task_tags" ->
         [id |-> t.id, task_id |-> t.key[1], tag_id |-> t.key[2]]
    [] t.table = "tags" -> [id |-> t.id, name |-> t.key[1]]

\* the row becomes visible; a tag is an Entity Store record and has its
\* audit row in the same transaction
COMMIT(w) ==
  /\ txn[w].pc = "open"
  /\ team_members' = IF txn[w].table = "team_members"
                        THEN team_members \cup {RowOf(txn[w])} ELSE team_members
  /\ project_members' = IF txn[w].table = "project_members"
                           THEN project_members \cup {RowOf(txn[w])}
                           ELSE project_members
  /\ task_tags' = IF txn[w].table = "task_tags"
                     THEN task_tags \cup {RowOf(txn[w])} ELSE task_tags
  /\ tags' = IF txn[w].table = "tags" THEN tags \cup {RowOf(txn[w])} ELSE tags
  /\ IF txn[w].table = "tags"
       THEN /\ activity_logs' = append(activity_logs, session, NULL, "created",
                                       "tag", txn[w].id, NoDetails)
            /\ nextId' = [nextId EXCEPT !.activity_logs = @ + 1]
       ELSE UNCHANGED <<activity_logs, nextId>>
  /\ txn' = [txn EXCEPT ![w].pc = "committed"]
  /\ result' = "Ok"
  /\ UNCHANGED <<users, teams, projects, milestones, tasks, task_comments,
                 time_logs, attachments, notifications, now, ops, client,
                 cascade, seen, feed>>

ROLLBACK(w) ==
  /\ txn[w].pc = "open"
  /\ txn' = [txn EXCEPT ![w].pc = "rolledback"]
  /\ UNCHANGED <<store, nextId, now, result, ops, client, cascade, seen, feed>>

WritersInit ==
  /\ PopulatedDb
  /\ session \in Actors
  /\ now = 0
  /\ result = "None"
  /\ ops = 0
  /\ PageClosed /\ BrowserIdle
  /\ Quiet

WritersNext ==
  \/ \E w \in Writers, table \in UniqueTables :
        \E key \in Keys(table) : INSERT(w, table, key)
  \/ \E w \in Writers : COMMIT(w)
  \/ \E w \in Writers : ROLLBACK(w)

WritersSpec == WritersInit /\ [][WritersNext]_vars

(***************************************************************************)
(* The activity feed.  The id of an activity_logs row is a generated UUID  *)
(* (any value no row has) and its created_at the NOW() of its transaction; *)
(* the table has no other column that orders rows.  insertion keeps, for   *)
(* the properties only, the order in which the rows were inserted.  A      *)
(* reader pages through the events of a project: each call passes, as      *)
(* before, the last event of the page the call before returned.            *)
(***************************************************************************)
EventUuids == 3..5

\* id UUID PRIMARY KEY DEFAULT uuid_generate_v4()
uuid_generate_v4(rows) == EventUuids \ Ids(rows)

\* a comment and its audit row
CommentLogged(a, t, u) ==
  /\ CanAct
  /\ pages = <<>>
  /\ Resolves(t, tasks) /\ Resolves(a, users)
  /\ u \in uuid_generate_v4(activity_logs)
  /\ task_comments' = task_comments \cup
       {[id |-> nextId.task_comments, task_id |-> t, user_id |-> a]}
  /\ activity_logs' = activity_logs \cup
       {[id |-> u, user_id |-> a, project_id |-> ProjectOfTask(t),
         action |-> "commented", entity_type |-> "comment",
         entity_id |-> nextId.task_comments, details |-> NoDetails,
         created_at |-> now]}
  /\ insertion' = Append(insertion, u)
  /\ nextId' = BumpOnly("task_comments")
  /\ result' = "Ok"
  /\ ops' = ops + 1
  /\ UNCHANGED <<users, teams, team_members, projects, project_members,
                 milestones, tasks, time_logs, tags, task_tags, attachments,
                 notifications, now, client, inflight, pages>>

\* a tag and its audit row, which has no project
TagLogged(a, n, u) ==
  /\ CanAct
  /\ pages = <<>>
  /\ tags_name_unique(n)
  /\ u \in uuid_generate_v4(activity_logs)
  /\ tags' = tags \cup {[id |-> nextId.tags, name |-> n]}
  /\ activity_logs' = activity_logs \cup
       {[id |-> u, user_id |-> a, project_id |-> NULL, action |-> "created",
         entity_type |-> "tag", entity_id |-> nextId.tags,
         details |-> NoDetails, created_at |-> now]}
  /\ insertion' = Append(insertion, u)
  /\ nextId' = BumpOnly("tags")
  /\ result' = "Ok"
  /\ ops' = ops + 1
  /\ UNCHANGED <<users, teams, team_members, projects, project_members,
                 milestones, tasks, task_comments, time_logs, task_tags,
                 attachments, notifications, now, client, inflight, pages>>

\* e1 is listed before e2: later created_at first, then the greater id
Newer(e1, e2) ==
  \/ e1.created_at > e2.created_at
  \/ e1.created_at = e2.created_at /\ e1.id > e2.id

RECURSIVE SortNewest(_)
SortNewest(events) ==
  IF events = {} THEN <<>>
  ELSE LET e == CHOOSE x \in events : \A y \in events \ {x} : Newer(x, y)
       IN <<e>> \o SortNewest(events \ {e})

Take(q, n) == SubSeq(q, 1, IF Len(q) < n THEN Len(q) ELSE n)

\* variant: the cursor is the creation time alone
listActivity_before_time(project, limit, before) ==
  Take(SortNewest({e \in activity_logs :
                     /\ project = NULL \/ e.project_id = project
                     /\ before = <<>> \/ e.created_at < before[1].created_at}),
       limit)

\* list(project_id?, limit, before?): before is <<>> or <<the cursor event>>
listActivity(project, limit, before) ==
  Take(SortNewest({e \in activity_logs :
                     /\ project = NULL \/ e.project_id = project
                     /\ before = <<>> \/ Newer(before[1], e)}),
       limit)

FeedProject == 1

Limits == {1, 2}

\* the paging ends with the first empty page
Finished == pages # <<>> /\ pages[Len(pages)] = <<>>

Cursor ==
  IF pages = <<>> THEN <<>>
  ELSE LET last == pages[Len(pages)] IN <<last[Len(last)]>>

fetchPage(limit) ==
  /\ ~Finished
  /\ pages' = Append(pages, listActivity(FeedProject, limit, Cursor))
  /\ UNCHANGED <<store, nextId, now, result, ops, client, inflight, insertion>>

FeedInit ==
  /\ PopulatedDb
  /\ session \in Ids(users)
  /\ now = 0
  /\ result = "None"
  /\ ops = 0
  /\ PageClosed /\ BrowserIdle
  /\ txn = [w \in Writers |-> Idle] /\ cascade = Idle /\ seen = <<>>
  /\ insertion = <<1, 2>>
  /\ pages = <<>>

FeedNext ==
  \/ \E a \in Actor, t \in Ids(tasks), u \in EventUuids : CommentLogged(a, t, u)
  \/ \E a \in Actor, n \in TagNames, u \in EventUuids : TagLogged(a, n, u)
  \/ \E limit \in Limits : fetchPage(limit)
  \/ Tick

FeedSpec == FeedInit /\ [][FeedNext]_vars

(***************************************************************************)
(* A deletion beside a reader.  The DELETE of a parent row runs inside a   *)
(* transaction: the referential actions rewrite the referencing tables one *)
(* after the other in the transaction's own version of the rows (work),    *)
(* and the commit makes all of it the committed content at once.  A reader *)
(* sees committed content only (read committed).                           *)
(***************************************************************************)
Committed ==
  [users |-> users, teams |-> teams, team_members |-> team_members,
   projects |-> projects, project_members |-> project_members,
   milestones |-> milestones, tasks |-> tasks,
   task_comments |-> task_comments, activity_logs |-> activity_logs,
   time_logs |-> time_logs, tags |-> tags, task_tags |-> task_tags,
   attachments |-> attachments, notifications |-> notifications]

\* the REFERENCES clauses of the schema: <<table, column, referenced table>>
ForeignKeys ==
  {<<"teams", "lead_id", "users">>,
   <<"team_members", "team_id", "teams">>,
   <<"team_members", "user_id", "users">>,
   <<"projects", "owner_id", "users">>,
   <<"project_members", "project_id", "projects">>,
   <<"project_members", "user_id", "users">>,
   <<"milestones", "project_id", "projects">>,
   <<"tasks", "project_id", "projects">>,
   <<"tasks", "milestone_id", "milestones">>,
   <<"tasks", "assignee_id", "users">>,
   <<"task_comments", "task_id", "tasks">>,
   <<"task_comments", "user_id", "users">>,
   <<"activity_logs", "user_id", "users">>,
   <<"activity_logs", "project_id", "projects">>,
   <<"time_logs", "task_id", "tasks">>,
   <<"time_logs", "user_id", "users">>,
   <<"task_tags", "task_id", "tasks">>,
   <<"task_tags", "tag_id", "tags">>,
   <<"attachments", "task_id", "tasks">>,
   <<"attachments", "uploaded_by", "users">>,
   <<"notifications", "user_id", "users">>}

\* the ON DELETE action of a foreign key, for the parent ids gone
OnDelete(fk, rows, gone) ==
  CASE fk = <<"teams", "lead_id", "users">> -> teams_lead_id(rows, gone)
    [] fk = <<"team_members", "team_id", "teams">> ->
         team_members_team_id(rows, gone)
    [] fk = <<"team_members", "user_id", "users">> ->
         team_members_user_id(rows, gone)
    [] fk = <<"projects", "owner_id", "users">> -> rows
    [] fk = <<"project_members", "project_id", "projects">> ->
         project_members_project_id(rows, gone)
    [] fk = <<"project_members", "user_id", "users">> ->
         project_members_user_id(rows, gone)
    [] fk = <<"milestones", "project_id", "projects">> ->
         milestones_project_id(rows, gone)
    [] fk = <<"tasks", "project_id", "projects">> -> tasks_project_id(rows, gone)
    [] fk = <<"tasks", "milestone_id", "milestones">> ->
         tasks_milestone_id(rows, gone)
    [] fk = <<"tasks", "assignee_id", "users">> -> tasks_assignee_id(rows, gone)
    [] fk = <<"task_comments", "task_id", "tasks">> ->
         task_comments_task_id(rows, gone)
    [] fk = <<"task_comments", "user_id", "users">> ->
         task_comments_user_id(rows, gone)
    [] fk = <<"activity_logs", "user_id", "users">> ->
         activity_logs_user_id(rows, gone)
    [] fk = <<"activity_logs", "project_id", "projects">> ->
         activity_logs_project_id(rows, gone)
    [] fk = <<"time_logs", "task_id", "tasks">> -> time_logs_task_id(rows, gone)
    [] fk = <<"time_logs", "user_id", "users">> -> time_logs_user_id(rows, gone)
    [] fk = <<"task_tags", "task_id", "tasks">> -> task_tags_task_id(rows, gone)
    [] fk = <<"task_tags", "tag_id", "tags">> -> task_tags_tag_id(rows, gone)
    [] fk = <<"attachments", "task_id", "tasks">> ->
         attachments_task_id(rows, gone)
    [] fk = <<"attachments", "uploaded_by", "users">> ->
         attachments_uploaded_by(rows, gone)
    [] fk = <<"notifications", "user_id", "users">> ->
         notifications_user_id(rows, gone)

\* the referenced ids of a foreign key that no row of the parent table has
Dangling(db, fk) ==
  {r[fk[2]] : r \in db[fk[1]]} \ ({NULL} \cup Ids(db[fk[3]]))

\* the rows of the referencing table after the foreign key has acted
Acted(db, fk) == OnDelete(fk, db[fk[1]], Dangling(db, fk))

\* BEGIN; the audit row; DELETE FROM projects WHERE id = p
BeginDeleteProject(a, p) ==
  /\ CanAct
  /\ cascade.pc = "idle"
  /\ Resolves(p, projects)
  /\ cascade' =
       [pc |-> "open", before |-> Committed,
        work |-> [Committed EXCEPT
                    !.projects = {r \in @ : r.id # p},
                    !.activity_logs = append(@, a, NULL, "deleted", "project",
                                             p, NoDetails)]]
  /\ ops' = ops + 1
  /\ UNCHANGED <<store, nextId, now, result, client, txn, seen, feed>>

\* BEGIN; the audit row; DELETE FROM users WHERE id = u
BeginDeleteUser(a, u) ==
  /\ CanAct
  /\ cascade.pc = "idle"
  /\ Resolves(u, users)
  /\ IF projects_owner_id(projects, {u})
       THEN /\ result' = "ReferentialConflict"
            /\ UNCHANGED cascade
       ELSE /\ cascade' =
                 [pc |-> "open", before |-> Committed,
                  work |-> [Committed EXCEPT
                              !.users = {r \in @ : r.id # u},
                              !.activity_logs = append(@, a, NULL, "deleted",
                                                       "user", u, NoDetails)]]
            /\ UNCHANGED result
  /\ ops' = ops + 1
  /\ UNCHANGED <<store, nextId, now, client, txn, seen, feed>>

\* one foreign key acts on the transaction's rows
CascadeStep(fk) ==
  /\ cascade.pc = "open"
  /\ Acted(cascade.work, fk) # cascade.work[fk[1]]
  /\ cascade' = [cascade EXCEPT !.work[fk[1]] = Acted(cascade.work, fk)]
  /\ UNCHANGED <<store, nextId, now, result, ops, client, txn, seen, feed>>

\* COMMIT, once every foreign key has acted
CommitCascade ==
  /\ cascade.pc = "open"
  /\ \A fk \in ForeignKeys : Acted(cascade.work, fk) = cascade.work[fk[1]]
  /\ users' = cascade.work.users
  /\ teams' = cascade.work.teams
  /\ team_members' = cascade.work.team_members
  /\ projects' = cascade.work.projects
  /\ project_members' = cascade.work.project_members
  /\ milestones' = cascade.work.milestones
  /\ tasks' = cascade.work.tasks
  /\ task_comments' = cascade.work.task_comments
  /\ activity_logs' = cascade.work.activity_logs
  /\ time_logs' = cascade.work.time_logs
  /\ tags' = cascade.work.tags
  /\ task_tags' = cascade.work.task_tags
  /\ attachments' = cascade.work.attachments
  /\ notifications' = cascade.work.notifications
  /\ nextId' = [nextId EXCEPT !.activity_logs = @ + 1]
  /\ result' = "Ok"
  /\ cascade' = Idle
  /\ UNCHANGED <<now, ops, client, txn, seen, feed>>

\* the transaction ends without a commit: an error, or the backend stops
AbortCascade ==
  /\ cascade.pc = "open"
  /\ cascade' = Idle
  /\ result' = "Error"
  /\ UNCHANGED <<store, nextId, now, ops, client, txn, seen, feed>>

\* what a statement of another session sees
Visible == Committed

\* a read call
Read ==
  /\ seen # <<Visible>>
  /\ seen' = <<Visible>>
  /\ UNCHANGED <<store, nextId, now, result, ops, client, txn, cascade, feed>>

CascadeInit ==
  /\ PopulatedDb
  /\ session \in Ids(users)
  /\ now = 0
  /\ result = "None"
  /\ ops = 0
  /\ PageClosed /\ BrowserIdle
  /\ Quiet

CascadeNext ==
  \/ \E a \in Actor, p \in Ids(projects) : BeginDeleteProject(a, p)
  \/ \E a \in Actor, u \in Ids(users) : BeginDeleteUser(a, u)
  \/ \E fk \in ForeignKeys : CascadeStep(fk)
  \/ CommitCascade
  \/ AbortCascade
  \/ Read
  \/ Tick

CascadeSpec == CascadeInit /\ [][CascadeNext]_vars

(***************************************************************************)
(* The life of a task: updates of its status, assignee and actual hours,   *)
(* and time logged on it.  The run starts from the seeded task, or from    *)
(* that task after it was set to done, reopened for review, and had        *)
(* another quarter of an hour logged on it.                                *)
(***************************************************************************)
ReopenedDb ==
  /\ users = {[id |-> 1], [id |-> 2]}
  /\ teams = {[id |-> 1, lead_id |-> 1, updated_at |-> 0]}
  /\ team_members = {[id |-> 1, team_id |-> 1, user_id |-> 2]}
  /\ projects = {[id |-> 1, owner_id |-> 1, updated_at |-> 0]}
  /\ project_members = {[id |-> 1, project_id |-> 1, user_id |-> 2]}
  /\ milestones = {[id |-> 1, project_id |-> 1]}
  /\ tasks = {[id |-> 1, project_id |-> 1, milestone_id |-> 1,
               title |-> "Implement homepage", status |-> "review",
               assignee_id |-> 2, estimated_hours |-> 2400,
               actual_hours |-> 25, updated_at |-> 0]}
  /\ task_comments = {[id |-> 1, task_id |-> 1, user_id |-> 2]}
  /\ activity_logs =
       {[id |-> 1, user_id |-> 1, project_id |-> 1, action |-> "created",
         entity_type |-> "project", entity_id |-> 1, details |-> NoDetails,
         created_at |-> 0],
        [id |-> 2, user_id |-> 2, project_id |-> 1,
         action |-> "status_changed", entity_type |-> "task", entity_id |-> 1,
         details |-> [from |-> "todo", to |-> "inprogress"], created_at |-> 0],
        [id |-> 3, user_id |-> 2, project_id |-> 1,
         action |-> "status_changed", entity_type |-> "task", entity_id |-> 1,
         details |-> [from |-> "inprogress", to |-> "done"], created_at |-> 0],
        [id |-> 4, user_id |-> 2, project_id |-> 1,
         action |-> "status_changed", entity_type |-> "task", entity_id |-> 1,
         details |-> [from |-> "done", to |-> "review"], created_at |-> 0],
        [id |-> 5, user_id |-> 2, project_id |-> 1, action |-> "created",
         entity_type |-> "time_log", entity_id |-> 2, details |-> NoDetails,
         created_at |-> 0]}
  /\ time_logs = {[id |-> 1, task_id |-> 1, user_id |-> 2, hours |-> 25],
                  [id |-> 2, task_id |-> 1, user_id |-> 2, hours |-> 25]}
  /\ tags = {[id |-> 1, name |-> "bug"]}
  /\ task_tags = {[id |-> 1, task_id |-> 1, tag_id |-> 1]}
  /\ attachments = {[id |-> 1, task_id |-> 1, uploaded_by |-> 2]}
  /\ notifications = {[id |-> 1, user_id |-> 2]}
  /\ nextId = [users |-> 3, teams |-> 2, team_members |-> 2, projects |-> 2,
               project_members |-> 2, milestones |-> 2, tasks |-> 2,
               task_comments |-> 2, activity_logs |-> 6, time_logs |-> 3,
               tags |-> 2, task_tags |-> 2, attachments |-> 2,
               notifications |-> 2]

\* actual hours a caller supplies
HoursSupplied == {100}

\* the bodies of tasksApi.update: Partial<Task>
Patches ==
  {[status |-> s] : s \in task_status}
  \cup {[assignee_id |-> u] : u \in {NULL} \cup Ids(users)}
  \cup {[status |-> s, assignee_id |-> u] :
          s \in task_status, u \in {NULL} \cup Ids(users)}
  \cup {[status |-> s, actual_hours |-> h] :
          s \in task_status, h \in HoursSupplied}
  \cup {[actual_hours |-> h] : h \in HoursSupplied}

LifecycleInit ==
  /\ PopulatedDb \/ ReopenedDb
  /\ session \in Ids(users)
  /\ now = 0
  /\ result = "None"
  /\ ops = 0
  /\ PageClosed /\ BrowserIdle
  /\ Quiet

LifecycleNext ==
  \/ \E a \in Actor, t \in Ids(tasks), patch \in Patches : UpdateTask(a, t, patch)
  \/ \E a \in Actor, t \in Ids(tasks), h \in HoursInputs : CreateTimeLog(a, t, h)

LifecycleSpec == LifecycleInit /\ [][LifecycleNext]_vars

(***************************************************************************)
(* Tags.  The run starts from the seeded database, or from it after user 2 *)
(* created the tag 'feature' and put it on the seeded task.                *)
(***************************************************************************)
TwoTagsDb ==
  /\ users = {[id |-> 1], [id |-> 2]}
  /\ teams = {[id |-> 1, lead_id |-> 1, updated_at |-> 0]}
  /\ team_members = {[id |-> 1, team_id |-> 1, user_id |-> 2]}
  /\ projects = {[id |-> 1, owner_id |-> 1, updated_at |-> 0]}
  /\ project_members = {[id |-> 1, project_id |-> 1, user_id |-> 2]}
  /\ milestones = {[id |-> 1, project_id |-> 1]}
  /\ tasks = {[id |-> 1, project_id |-> 1, milestone_id |-> 1,
               title |-> "Implement homepage", status |-> "inprogress",
               assignee_id |-> 2, estimated_hours |-> 2400,
               actual_hours |-> NULL, updated_at |-> 0]}
  /\ task_comments = {[id |-> 1, task_id |-> 1, user_id |-> 2]}
  /\ activity_logs =
       {[id |-> 1, user_id |-> 1, project_id |-> 1, action |-> "created",
         entity_type |-> "project", entity_id |-> 1, details |-> NoDetails,
         created_at |-> 0],
        [id |-> 2, user_id |-> 2, project_id |-> 1,
         action |-> "status_changed", entity_type |-> "task", entity_id |-> 1,
         details |-> [from |-> "todo", to |-> "inprogress"], created_at |-> 0],
        [id |-> 3, user_id |-> 2, project_id |-> NULL, action |-> "created",
         entity_type |-> "tag", entity_id |-> 2, details |-> NoDetails,
         created_at |-> 0]}
  /\ time_logs = {[id |-> 1, task_id |-> 1, user_id |-> 2, hours |-> 25]}
  /\ tags = {[id |-> 1, name |-> "bug"], [id |-> 2, name |-> "feature"]}
  /\ task_tags = {[id |-> 1, task_id |-> 1, tag_id |-> 1],
                  [id |-> 2, task_id |-> 1, tag_id |-> 2]}
  /\ attachments = {[id |-> 1, task_id |-> 1, uploaded_by |-> 2]}
  /\ notifications = {[id |-> 1, user_id |-> 2]}
  /\ nextId = [users |-> 3, teams |-> 2, team_members |-> 2, projects |-> 2,
               project_members |-> 2, milestones |-> 2, tasks |-> 2,
               task_comments |-> 2, activity_logs |-> 4, time_logs |-> 2,
               tags |-> 3, task_tags |-> 3, attachments |-> 2,
               notifications |-> 2]

TagsInit ==
  /\ \/ PopulatedDb /\ session \in Ids(users)
     \/ TwoTagsDb /\ session = 2
  /\ now = 0
  /\ result = "None"
  /\ ops = 0
  /\ PageClosed /\ BrowserIdle
  /\ Quiet

TagsNext ==
  \/ \E a \in Actor, n \in TagNames : CreateTag(a, n)
  \/ \E t \in Ids(tasks), g \in Ids(tags) : AddTagToTask(t, g)
  \/ \E a \in Actor, g \in Ids(tags) : DeleteTag(a, g)
  \/ \E a \in Actor, p \in Ids(projects) : CreateTask(a, p, NULL, NULL)
  \/ \E a \in Actor, t \in Ids(tasks) : DeleteTask(a, t)
  \/ Tick

TagsSpec == TagsInit /\ [][TagsNext]_vars

(***************************************************************************)
(* Creates whose references may not resolve.  The ids of a request are     *)
(* those of existing rows or an id no row has; the actor is the session's  *)
(* user, who may not exist either.  An INSERT whose foreign key finds no   *)
(* parent row fails, and its transaction, the audit row included, writes   *)
(* nothing.                                                                *)
(***************************************************************************)
MissingId == 9

RequestIds(rows) == Ids(rows) \cup {MissingId}

\* the request is answered with an error and nothing is written
Rejected(error) ==
  /\ CanAct
  /\ result' = error
  /\ ops' = ops + 1
  /\ UNCHANGED <<store, nextId, now, elsewhere>>

POST_projects(a, owner) ==
  IF Resolves(a, users) /\ projects_owner_id_fkey(owner)
    THEN CreateProject(a, owner)
    ELSE Rejected("NotFound")

POST_milestones(a, p) ==
  IF Resolves(a, users) /\ Resolves(p, projects)
    THEN CreateMilestone(a, p)
    ELSE Rejected("NotFound")

POST_tasks(a, p, m, assignee) ==
  IF /\ Resolves(a, users) /\ Resolves(p, projects)
     /\ NullOrResolves(m, milestones) /\ NullOrResolves(assignee, users)
    THEN CreateTask(a, p, m, assignee)
    ELSE Rejected("NotFound")

POST_comments(a, t) ==
  IF Resolves(a, users) /\ Resolves(t, tasks)
    THEN CreateComment(a, t)
    ELSE Rejected("NotFound")

POST_time_logs(a, t, h) ==
  IF Resolves(a, users) /\ Resolves(t, tasks)
    THEN CreateTimeLog(a, t, h)
    ELSE Rejected("NotFound")

POST_attachments(a, t) ==
  IF Resolves(a, users) /\ Resolves(t, tasks)
    THEN CreateAttachment(a, t)
    ELSE Rejected("NotFound")

CreatesInit ==
  /\ EmptyDb \/ PopulatedDb
  /\ session \in RequestIds(users)
  /\ now = 0
  /\ result = "None"
  /\ ops = 0
  /\ PageClosed /\ BrowserIdle
  /\ Quiet

CreatesNext ==
  \/ \E owner \in RequestIds(users) : POST_projects(session, owner)
  \/ \E p \in RequestIds(projects) : POST_milestones(session, p)
  \/ \E p \in RequestIds(projects), m \in {NULL} \cup RequestIds(milestones),
        u \in {NULL} \cup RequestIds(users) : POST_tasks(session, p, m, u)
  \/ \E t \in RequestIds(tasks) : POST_comments(session, t)
  \/ \E t \in RequestIds(tasks), h \in HoursInputs : POST_time_logs(session, t, h)
  \/ \E t \in RequestIds(tasks) : POST_attachments(session, t)
  \/ \E a \in Actor : CreateUser(a)

CreatesSpec == CreatesInit /\ [][CreatesNext]_vars

(***************************************************************************)
(* The auth store, as its tests pin it down.  calls keeps the calls made,  *)
(* for the properties only.                                                *)
(***************************************************************************)
MaxCalls == 3

AuthUsers == {"user-1", "user-2"}

Tokens == {"token1", "token2"}

CanCall == Len(calls) < MaxCalls

\* localStorage.setItem(key, value)
setItem(key, value) == [localStorage EXCEPT ![key] = value]

\* localStorage.removeItem(key)
removeItem(key) == [localStorage EXCEPT ![key] = null]

\* localStorage.getItem(key)
getItem(key) == localStorage[key]

\* variant: a user already signed in stays
setAuth_first_user(u, t) ==
  /\ CanCall
  /\ user' = IF user = null THEN u ELSE user
  /\ token' = t
  /\ isAuthenticated' = TRUE
  /\ localStorage' = setItem("token", t)
  /\ calls' = Append(calls, [op |-> "setAuth", user |-> u, token |-> t])
  /\ UNCHANGED <<store, nextId, now, result, ops, session, page, inflight,
                 feed, react, location>>

\* useAuthStore.getState().setAuth(user, token)
setAuth(u, t) ==
  /\ CanCall
  /\ user' = u
  /\ token' = t
  /\ isAuthenticated' = TRUE
  /\ localStorage' = setItem("token", t)
  /\ calls' = Append(calls, [op |-> "setAuth", user |-> u, token |-> t])
  /\ UNCHANGED <<store, nextId, now, result, ops, session, page, inflight,
                 feed, react, location>>

\* variant: the token stays in localStorage
logout_keeps_localStorage ==
  /\ CanCall
  /\ user' = null
  /\ token' = null
  /\ isAuthenticated' = FALSE
  /\ calls' = Append(calls, [op |-> "logout", user |-> null, token |-> null])
  /\ UNCHANGED <<store, nextId, now, result, ops, session, page, inflight,
                 feed, react, location, localStorage>>

\* useAuthStore.getState().logout()
logout ==
  /\ CanCall
  /\ user' = null
  /\ token' = null
  /\ isAuthenticated' = FALSE
  /\ localStorage' = removeItem("token")
  /\ calls' = Append(calls, [op |-> "logout", user |-> null, token |-> null])
  /\ UNCHANGED <<store, nextId, now, result, ops, session, page, inflight,
                 feed, react, location>>

AuthInit ==
  /\ EmptyDb
  /\ session = NULL
  /\ now = 0
  /\ result = "None"
  /\ ops = 0
  /\ PageClosed /\ BrowserIdle
  /\ Quiet

AuthNext ==
  \/ \E u \in AuthUsers, t \in Tokens : setAuth(u, t)
  \/ logout

AuthSpec == AuthInit /\ [][AuthNext]_vars

(***************************************************************************)
(* The session in the browser: the login form, the sidebar's logout and    *)
(* the two interceptors of lib/api.ts.  requests holds, for every request  *)
(* sent, its url, the Authorization header it went out with and how it was *)
(* settled; state tells whether the document is being replaced.            *)
(***************************************************************************)
MaxRequests == 3

Urls == {"/auth/login", "/projects"}

Loaded == [unloading |-> FALSE]

CanSend == Len(requests) < MaxRequests

Pending(i) == i \in DOMAIN requests /\ requests[i].settled = "pending"

\* the request interceptor: the header is taken from localStorage, and left
\* out (the empty tuple) when there is no token
Authorization ==
  IF getItem("token") # null THEN <<"Bearer", getItem("token")>> ELSE <<>>

\* api.get / api.post, as far as the request interceptor
send(url) ==
  /\ CanSend
  /\ requests' = Append(requests, [url |-> url, Authorization |-> Authorization,
                                   settled |-> "pending"])
  /\ UNCHANGED <<store, nextId, now, result, ops, session, page, inflight,
                 feed, auth, state, backend>>

\* a response other than the login's comes back without an error
response_ok(i) ==
  /\ Pending(i) /\ requests[i].url # "/auth/login"
  /\ requests' = [requests EXCEPT ![i].settled = "resolved"]
  /\ UNCHANGED <<store, nextId, now, result, ops, session, page, inflight,
                 feed, auth, state, backend>>

\* LoginForm.handleSubmit, once the login has come back with a user and a
\* token: setAuth, then router.push('/projects')
handleSubmit(i, u, t) ==
  /\ Pending(i) /\ requests[i].url = "/auth/login"
  /\ CanCall
  /\ requests' = [requests EXCEPT ![i].settled = "resolved"]
  /\ user' = u
  /\ token' = t
  /\ isAuthenticated' = TRUE
  /\ localStorage' = setItem("token", t)
  /\ calls' = Append(calls, [op |-> "setAuth", user |-> u, token |-> t])
  /\ location' = "/projects"
  /\ UNCHANGED <<store, nextId, now, result, ops, session, page, inflight,
                 feed, state, backend>>

\* the response interceptor on a 401: both keys are removed, the window is
\* sent to /login, and the error is passed on
response_401(i) ==
  /\ Pending(i)
  /\ localStorage' = [localStorage EXCEPT !["token"] = null, !["user"] = null]
  /\ location' = "/login"
  /\ state' = [unloading |-> TRUE]
  /\ requests' = [requests EXCEPT ![i].settled = "rejected"]
  /\ UNCHANGED <<store, nextId, now, result, ops, session, page, inflight,
                 feed, user, token, isAuthenticated, calls, backend>>

\* the response interceptor on any other error: the error is passed on
response_error(i) ==
  /\ Pending(i)
  /\ requests' = [requests EXCEPT ![i].settled = "rejected"]
  /\ UNCHANGED <<store, nextId, now, result, ops, session, page, inflight,
                 feed, auth, state, backend>>

\* the document of /login replaces the one that set window.location.href: the
\* store is created anew, localStorage stays, what was pending is dropped
unload ==
  /\ state.unloading
  /\ state' = Loaded
  /\ user' = null /\ token' = null /\ isAuthenticated' = FALSE
  /\ location' = "/login"
  /\ requests' = [i \in DOMAIN requests |->
                    IF Pending(i) THEN [requests[i] EXCEPT !.settled = "dropped"]
                    ELSE requests[i]]
  /\ UNCHANGED <<store, nextId, now, result, ops, session, page, inflight,
                 feed, localStorage, calls, backend>>

SessionInit ==
  /\ EmptyDb
  /\ session = NULL
  /\ now = 0
  /\ result = "None"
  /\ ops = 0
  /\ PageClosed /\ SignedOut
  /\ state = Loaded /\ requests = <<>> /\ backend = <<>>
  /\ Quiet

SessionNext ==
  \/ \E url \in Urls : send(url)
  \/ \E i \in DOMAIN requests : response_ok(i)
  \/ \E i \in DOMAIN requests, u \in AuthUsers, t \in Tokens :
       handleSubmit(i, u, t)
  \/ \E i \in DOMAIN requests : response_401(i)
  \/ \E i \in DOMAIN requests : response_error(i)
  \/ logout
  \/ unload

SessionSpec == SessionInit /\ [][SessionNext]_vars

(***************************************************************************)
(* The kanban board.  state is the page's React state (tasks as the status *)
(* shown for each task, draggedTask as the task object picked up, with the *)
(* status it had then), backend the status the server holds for each task, *)
(* requests the updates sent: the task, the status asked for, the status   *)
(* of the dragged object, and how far the request has got.                 *)
(***************************************************************************)
MaxDrops == 2

COLUMNS == {"Todo", "inprogress", "Review", "Done", "Blocked"}

BoardTasks == {1, 2}

\* draggedTask is null
NoTask == [id |-> NULL, status |-> null]

CanDrop == Len(requests) < MaxDrops

\* the status the board shows for each task after setTasks(prev => prev.map(...))
setTasks(prev, id, status) == [t \in DOMAIN prev |-> IF t = id THEN status ELSE prev[t]]

\* onDragStart of a task card: the task object as it is rendered
handleDragStart(t) ==
  /\ state' = [state EXCEPT !.draggedTask = [id |-> t, status |-> state.tasks[t]]]
  /\ UNCHANGED <<store, nextId, now, result, ops, session, page, inflight,
                 feed, auth, requests, backend>>

\* variant: the drop does not look at the column the task came from
handleDrop_any_column(newStatus) ==
  LET draggedTask == state.draggedTask IN
  IF draggedTask = NoTask
  THEN /\ state' = [state EXCEPT !.draggedTask = NoTask]
       /\ UNCHANGED <<store, nextId, now, result, ops, session, page,
                      inflight, feed, auth, requests, backend>>
  ELSE /\ CanDrop
       /\ state' = [state EXCEPT
                      !.tasks = setTasks(state.tasks, draggedTask.id, newStatus)]
       /\ requests' = Append(requests, [id |-> draggedTask.id,
                                        status |-> newStatus,
                                        draggedTask |-> draggedTask,
                                        pc |-> "sent"])
       /\ UNCHANGED <<store, nextId, now, result, ops, session, page,
                      inflight, feed, auth, backend>>

\* onDrop of a column, up to the await of tasksApi.update
handleDrop(newStatus) ==
  LET draggedTask == state.draggedTask IN
  IF draggedTask = NoTask \/ draggedTask.status = newStatus
  THEN /\ state' = [state EXCEPT !.draggedTask = NoTask]
       /\ UNCHANGED <<store, nextId, now, result, ops, session, page,
                      inflight, feed, auth, requests, backend>>
  ELSE /\ CanDrop
       /\ state' = [state EXCEPT
                      !.tasks = setTasks(state.tasks, draggedTask.id, newStatus)]
       /\ requests' = Append(requests, [id |-> draggedTask.id,
                                        status |-> newStatus,
                                        draggedTask |-> draggedTask,
                                        pc |-> "sent"])
       /\ UNCHANGED <<store, nextId, now, result, ops, session, page,
                      inflight, feed, auth, backend>>

\* PUT /tasks/:id {status} reaches the backend, which stores the status
PUT_tasks(i) ==
  /\ i \in DOMAIN requests /\ requests[i].pc = "sent"
  /\ backend' = [backend EXCEPT ![requests[i].id] = requests[i].status]
  /\ requests' = [requests EXCEPT ![i].pc = "stored"]
  /\ UNCHANGED <<store, nextId, now, result, ops, session, page, inflight,
                 feed, auth, state>>

\* handleDrop after the await, the update having succeeded
handleDrop_resolved(i) ==
  /\ i \in DOMAIN requests /\ requests[i].pc = "stored"
  /\ state' = [state EXCEPT !.draggedTask = NoTask]
  /\ requests' = [requests EXCEPT ![i].pc = "done"]
  /\ UNCHANGED <<store, nextId, now, result, ops, session, page, inflight,
                 feed, auth, backend>>

\* handleDrop after the await, in the catch (the request failed and the
\* backend stored nothing): the task goes back to the status of the object
\* that was dragged
handleDrop_rejected(i) ==
  /\ i \in DOMAIN requests /\ requests[i].pc = "sent"
  /\ state' = [state EXCEPT
                 !.tasks = setTasks(state.tasks, requests[i].draggedTask.id,
                                    requests[i].draggedTask.status),
                 !.draggedTask = NoTask]
  /\ requests' = [requests EXCEPT ![i].pc = "done"]
  /\ UNCHANGED <<store, nextId, now, result, ops, session, page, inflight,
                 feed, auth, backend>>

\* the page after loadData: the board shows what the backend holds
KanbanInit ==
  /\ EmptyDb
  /\ session = NULL
  /\ now = 0
  /\ result = "None"
  /\ ops = 0
  /\ PageClosed /\ SignedOut
  /\ backend = [t \in BoardTasks |-> "Todo"]
  /\ state = [tasks |-> backend, draggedTask |-> NoTask]
  /\ requests = <<>>
  /\ Quiet

KanbanNext ==
  \/ \E t \in BoardTasks : handleDragStart(t)
  \/ \E newStatus \in COLUMNS : handleDrop(newStatus)
  \/ \E i \in DOMAIN requests : PUT_tasks(i)
  \/ \E i \in DOMAIN requests : handleDrop_resolved(i)
  \/ \E i \in DOMAIN requests : handleDrop_rejected(i)

KanbanSpec == KanbanInit /\ [][KanbanNext]_vars

(***************************************************************************)
(* The tag selector of one task.  state holds selectedTags (the parent's   *)
(* list, replaced through onTagsChange) and loading; backend is the set of *)
(* tags the server holds for the task; a request carries the selectedTags  *)
(* of the render whose handler sent it.                                    *)
(***************************************************************************)
MaxClicks == 2

\* the tags that loadTags has fetched
allTags == {1, 2, 3}

CanClick == Len(requests) < MaxClicks

\* the ids in a list of tags
TagIds(list) == {list[k] : k \in DOMAIN list}

\* selectedTags.filter((t) => t.id !== tagId)
RECURSIVE filter(_, _)
filter(list, tagId) ==
  IF list = <<>> THEN <<>>
  ELSE IF Head(list) = tagId THEN filter(Tail(list), tagId)
       ELSE <<Head(list)>> \o filter(Tail(list), tagId)

\* the tags offered in the dropdown (with an empty search)
availableTags == {tag \in allTags : tag \notin TagIds(state.selectedTags)}

\* a click on a tag of the dropdown, up to the await; the buttons are disabled
\* while loading
handleAddTag(tag) ==
  /\ CanClick
  /\ tag \in availableTags /\ ~state.loading
  /\ state' = [state EXCEPT !.loading = TRUE]
  /\ requests' = Append(requests, [op |-> "add", tag |-> tag,
                                   selectedTags |-> state.selectedTags,
                                   pc |-> "sent"])
  /\ UNCHANGED <<store, nextId, now, result, ops, session, page, inflight,
                 feed, auth, backend>>

\* a click on the cross of a selected tag, up to the await
handleRemoveTag(tagId) ==
  /\ CanClick
  /\ tagId \in TagIds(state.selectedTags)
  /\ state' = [state EXCEPT !.loading = TRUE]
  /\ requests' = Append(requests, [op |-> "remove", tag |-> tagId,
                                   selectedTags |-> state.selectedTags,
                                   pc |-> "sent"])
  /\ UNCHANGED <<store, nextId, now, result, ops, session, page, inflight,
                 feed, auth, backend>>

\* POST /tasks/:id/tags/:tagId is served: the pair is in task_tags
POST_task_tag(i) ==
  /\ i \in DOMAIN requests
  /\ requests[i].pc = "sent" /\ requests[i].op = "add"
  /\ backend' = backend \cup {requests[i].tag}
  /\ requests' = [requests EXCEPT ![i].pc = "stored"]
  /\ UNCHANGED <<store, nextId, now, result, ops, session, page, inflight,
                 feed, auth, state>>

\* DELETE /tasks/:id/tags/:tagId is served: the pair is not in task_tags
DELETE_task_tag(i) ==
  /\ i \in DOMAIN requests
  /\ requests[i].pc = "sent" /\ requests[i].op = "remove"
  /\ backend' = backend \ {requests[i].tag}
  /\ requests' = [requests EXCEPT ![i].pc = "stored"]
  /\ UNCHANGED <<store, nextId, now, result, ops, session, page, inflight,
                 feed, auth, state>>

\* the handler after the await: onTagsChange with the list of its own render
onTagsChange(i) ==
  /\ i \in DOMAIN requests /\ requests[i].pc = "stored"
  /\ state' = [selectedTags |->
                 IF requests[i].op = "add"
                 THEN Append(requests[i].selectedTags, requests[i].tag)
                 ELSE filter(requests[i].selectedTags, requests[i].tag),
               loading |-> FALSE]
  /\ requests' = [requests EXCEPT ![i].pc = "done"]
  /\ UNCHANGED <<store, nextId, now, result, ops, session, page, inflight,
                 feed, auth, backend>>

\* the handler's catch and finally: the request failed, the server stored
\* nothing
tag_request_failed(i) ==
  /\ i \in DOMAIN requests /\ requests[i].pc = "sent"
  /\ state' = [state EXCEPT !.loading = FALSE]
  /\ requests' = [requests EXCEPT ![i].pc = "done"]
  /\ UNCHANGED <<store, nextId, now, result, ops, session, page, inflight,
                 feed, auth, backend>>

\* the selector as mounted: the list shows the tags of the task
SelectorInit ==
  /\ EmptyDb
  /\ session = NULL
  /\ now = 0
  /\ result = "None"
  /\ ops = 0
  /\ PageClosed /\ SignedOut
  /\ backend = {1, 2}
  /\ state = [selectedTags |-> <<1, 2>>, loading |-> FALSE]
  /\ requests = <<>>
  /\ Quiet

SelectorNext ==
  \/ \E tag \in allTags : handleAddTag(tag)
  \/ \E tagId \in allTags : handleRemoveTag(tagId)
  \/ \E i \in DOMAIN requests : POST_task_tag(i)
  \/ \E i \in DOMAIN requests : DELETE_task_tag(i)
  \/ \E i \in DOMAIN requests : onTagsChange(i)
  \/ \E i \in DOMAIN requests : tag_request_failed(i)

SelectorSpec == SelectorInit /\ [][SelectorNext]_vars

(***************************************************************************)
(* The activity page and its project filter.  state holds                  *)
(* selectedProjectId (NULL for 'All Projects'), activities and loading;    *)
(* backend is the list the server answers with for each filter; a request  *)
(* carries the project_id it was sent with and its outcome.                *)
(***************************************************************************)
MaxSelections == 2

\* 'All Projects' and the projects that loadProjects has fetched
Filters == {NULL, 1, 2}

CanSelect == Len(requests) <= MaxSelections

\* loadActivities, up to the await: the request it sends
loadActivities(selectedProjectId) ==
  [project_id |-> selectedProjectId, pc |-> "sent", outcome |-> "pending"]

\* onClick of an entry of the project dropdown; the effect on
\* [selectedProjectId] runs loadActivities when the selection has changed
selectProject(p) ==
  /\ CanSelect
  /\ p # state.selectedProjectId
  /\ state' = [state EXCEPT !.selectedProjectId = p, !.loading = TRUE]
  /\ requests' = Append(requests, loadActivities(p))
  /\ UNCHANGED <<store, nextId, now, result, ops, session, page, inflight,
                 feed, auth, backend>>

\* loadActivities after the await: setActivities(activitiesRes.data), and
\* setLoading(false) in the finally
loadActivities_resolved(i) ==
  /\ i \in DOMAIN requests /\ requests[i].pc = "sent"
  /\ state' = [state EXCEPT !.activities = backend[requests[i].project_id],
                            !.loading = FALSE]
  /\ requests' = [requests EXCEPT ![i].pc = "done", ![i].outcome = "ok"]
  /\ UNCHANGED <<store, nextId, now, result, ops, session, page, inflight,
                 feed, auth, backend>>

\* loadActivities in the catch, and setLoading(false) in the finally
loadActivities_rejected(i) ==
  /\ i \in DOMAIN requests /\ requests[i].pc = "sent"
  /\ state' = [state EXCEPT !.loading = FALSE]
  /\ requests' = [requests EXCEPT ![i].pc = "done", ![i].outcome = "error"]
  /\ UNCHANGED <<store, nextId, now, result, ops, session, page, inflight,
                 feed, auth, backend>>

\* the page as mounted: 'All Projects' is selected and its list is being
\* fetched
ActivityInit ==
  /\ EmptyDb
  /\ session = NULL
  /\ now = 0
  /\ result = "None"
  /\ ops = 0
  /\ PageClosed /\ SignedOut
  /\ backend = [p \in Filters |-> IF p = NULL THEN <<3, 2, 1>>
                                  ELSE IF p = 1 THEN <<3, 1>> ELSE <<2>>]
  /\ state = [selectedProjectId |-> NULL, activities |-> <<>>,
              loading |-> TRUE]
  /\ requests = <<loadActivities(NULL)>>
  /\ Quiet

ActivityNext ==
  \/ \E p \in Filters : selectProject(p)
  \/ \E i \in DOMAIN requests : loadActivities_resolved(i)
  \/ \E i \in DOMAIN requests : loadActivities_rejected(i)

ActivitySpec == ActivityInit /\ [][ActivityNext]_vars

(***************************************************************************)
(* The week of the timesheet page.  A Date is the number of its local day, *)
(* counted from 1970-01-01 (a Thursday).  state holds currentWeek, the     *)
(* days by which the UTC date of the page's instants differs from their    *)
(* local date (toISOString is UTC), and the weeks shown so far; timeLogs   *)
(* is the list loaded for the week shown, backend every entry of the user. *)
(***************************************************************************)
MaxMoves == 2

\* Sunday 1970-01-04 to Sunday 1970-01-11
ReferenceDates == 3..10

\* Date.prototype.getDay: 0 is Sunday
getDay(date) == (date + 4) % 7

\* the week shown for a reference date
getWeekDates(date) ==
  LET start == date - getDay(date) + 1
  IN  [i \in 1..7 |-> start + (i - 1)]

\* date.toISOString().split('T')[0]: the UTC date of the instant
formatDate(date) == date + state.utcOffset

weekDates == getWeekDates(state.currentWeek)

\* timeLogsApi.list({start_date, end_date}): the entries dated in the range
listTimeLogs(week) ==
  NewestFirst({log \in backend : /\ log.date >= formatDate(week[1])
                                 /\ log.date <= formatDate(week[7])})

RECURSIVE reduceHours(_)
reduceHours(logs) ==
  IF logs = <<>> THEN 0 ELSE Head(logs).hours + reduceHours(Tail(logs))

\* the hours of the loaded entries of one date
getHoursForDate(date) ==
  reduceHours(SelectSeq(timeLogs, LAMBDA log : log.date = date))

RECURSIVE reduceWeek(_, _)
reduceWeek(week, i) ==
  IF i > Len(week) THEN 0
  ELSE getHoursForDate(formatDate(week[i])) + reduceWeek(week, i + 1)

getWeekTotal == reduceWeek(weekDates, 1)

CanMove == Len(state.shown) <= MaxMoves

\* setCurrentWeek, with the reload of the entries that the change sets off
setCurrentWeek(newDate, op) ==
  /\ CanMove
  /\ state' = [state EXCEPT
                 !.currentWeek = newDate,
                 !.shown = Append(@, [op |-> op, week |-> getWeekDates(newDate)])]
  /\ timeLogs' = listTimeLogs(getWeekDates(newDate))
  /\ UNCHANGED <<store, nextId, now, result, ops, session, activeTimer,
                 timerElapsed, inflight, feed, auth, requests, backend>>

handlePrevWeek == setCurrentWeek(state.currentWeek - 7, "prev")

handleNextWeek == setCurrentWeek(state.currentWeek + 7, "next")

\* the page as opened on some day, in some time zone, with its entries loaded;
\* the user has logged hours on every day, more on the later ones
WeekInit ==
  /\ EmptyDb
  /\ session = NULL
  /\ now = 0
  /\ result = "None"
  /\ ops = 0
  /\ activeTimer = NULL /\ timerElapsed = 0
  /\ SignedOut
  /\ requests = <<>>
  /\ \E today \in ReferenceDates, utcOffset \in {-1, 0, 1} :
       /\ state = [currentWeek |-> today, utcOffset |-> utcOffset,
                   shown |-> <<[op |-> "open", week |-> getWeekDates(today)]>>]
       /\ backend = {[id |-> d + 30, date |-> d, hours |-> 100 + d] :
                       d \in -20..40}
       /\ timeLogs = NewestFirst({log \in backend :
                        /\ log.date >= getWeekDates(today)[1] + utcOffset
                        /\ log.date <= getWeekDates(today)[7] + utcOffset})
  /\ Quiet

WeekNext ==
  \/ handlePrevWeek
  \/ handleNextWeek

WeekSpec == WeekInit /\ [][WeekNext]_vars

(***************************************************************************)
(* Two projects, each with a milestone and a task: the seeded project and  *)
(* one that user 2 has created after it.                                   *)
(***************************************************************************)
TwoProjectsDb ==
  /\ users = {[id |-> 1], [id |-> 2]}
  /\ teams = {[id |-> 1, lead_id |-> 1, updated_at |-> 0]}
  /\ team_members = {[id |-> 1, team_id |-> 1, user_id |-> 2]}
  /\ projects = {[id |-> 1, owner_id |-> 1, updated_at |-> 0],
                 [id |-> 2, owner_id |-> 2, updated_at |-> 0]}
  /\ project_members = {[id |-> 1, project_id |-> 1, user_id |-> 2]}
  /\ milestones = {[id |-> 1, project_id |-> 1], [id |-> 2, project_id |-> 2]}
  /\ tasks = {[id |-> 1, project_id |-> 1, milestone_id |-> 1,
               title |-> "Implement homepage", status |-> "inprogress",
               assignee_id |-> 2, estimated_hours |-> 2400,
               actual_hours |-> NULL, updated_at |-> 0],
              [id |-> 2, project_id |-> 2, milestone_id |-> 2,
               title |-> "task", status |-> "todo",
               assignee_id |-> NULL, estimated_hours |-> NULL,
               actual_hours |-> NULL, updated_at |-> 0]}
  /\ task_comments = {[id |-> 1, task_id |-> 1, user_id |-> 2]}
  /\ activity_logs =
       {[id |-> 1, user_id |-> 1, project_id |-> 1, action |-> "created",
         entity_type |-> "project", entity_id |-> 1, details |-> NoDetails,
         created_at |-> 0],
        [id |-> 2, user_id |-> 2, project_id |-> 1,
         action |-> "status_changed", entity_type |-> "task", entity_id |-> 1,
         details |-> [from |-> "todo", to |-> "inprogress"], created_at |-> 0],
        [id |-> 3, user_id |-> 2, project_id |-> 2, action |-> "created",
         entity_type |-> "project", entity_id |-> 2, details |-> NoDetails,
         created_at |-> 0],
        [id |-> 4, user_id |-> 2, project_id |-> 2, action |-> "created",
         entity_type |-> "milestone", entity_id |-> 2, details |-> NoDetails,
         created_at |-> 0],
        [id |-> 5, user_id |-> 2, project_id |-> 2, action |-> "created",
         entity_type |-> "task", entity_id |-> 2, details |-> NoDetails,
         created_at |-> 0]}
  /\ time_logs = {[id |-> 1, task_id |-> 1, user_id |-> 2, hours |-> 25]}
  /\ tags = {[id |-> 1, name |-> "bug"]}
  /\ task_tags = {[id |-> 1, task_id |-> 1, tag_id |-> 1]}
  /\ attachments = {[id |-> 1, task_id |-> 1, uploaded_by |-> 2]}
  /\ notifications = {[id |-> 1, user_id |-> 2]}
  /\ nextId = [users |-> 3, teams |-> 2, team_members |-> 2, projects |-> 3,
               project_members |-> 2, milestones |-> 3, tasks |-> 3,
               task_comments |-> 2, activity_logs |-> 6, time_logs |-> 2,
               tags |-> 2, task_tags |-> 2, attachments |-> 2,
               notifications |-> 2]

ProjectsInit ==
  /\ TwoProjectsDb
  /\ session \in Ids(users)
  /\ now = 0
  /\ result = "None"
  /\ ops = 0
  /\ PageClosed /\ BrowserIdle
  /\ Quiet

ProjectsNext ==
  \/ \E a \in Actor, p \in Ids(projects) : CreateMilestone(a, p)
  \/ \E a \in Actor, p \in Ids(projects), m \in {NULL} \cup Ids(milestones) :
        CreateTask(a, p, m, NULL)
  \/ \E a \in Actor, p \in Ids(projects) : DeleteProject(a, p)
  \/ \E a \in Actor, m \in Ids(milestones) : DeleteMilestone(a, m)

ProjectsSpec == ProjectsInit /\ [][ProjectsNext]_vars

(***************************************************************************)
(*                              Properties                                 *)
(***************************************************************************)
\* r2 is r but for the columns cols
SameExcept(r, r2, cols) ==
  /\ DOMAIN r = DOMAIN r2
  /\ \A f \in DOMAIN r \ cols : r[f] = r2[f]

Refs(rows, col, id) == {r \in rows : r[col] = id}

\* C1: a step that removes a project P leaves no task, milestone, project
\* membership or activity event whose project reference is P.
C1_ProjectDeleteRemovesDependents ==
  [][\A p \in Ids(projects) \ Ids(projects') :
       /\ Refs(tasks', "project_id", p) = {}
       /\ Refs(milestones', "project_id", p) = {}
       /\ Refs(project_members', "project_id", p) = {}
       /\ Refs(activity_logs', "project_id", p) = {}]_vars

\* the seeded project, with its task, milestone, member and events, deleted
C1_Witness ==
  /\ ops = 1 /\ result = "Ok"
  /\ nextId.projects = 2 /\ projects = {}
  /\ nextId.tasks = 2 /\ nextId.milestones = 2 /\ nextId.project_members = 2
  /\ \E e \in activity_logs :
       e.action = "deleted" /\ e.entity_type = "project" /\ e.entity_id = 1

Owns(u) == \E r \in projects : r.owner_id = u

\* C2: deleting a user who owns a project answers ReferentialConflict and
\* leaves every table as it was.
C2_OwnerDeleteRejected ==
  [][\A a \in Actor, u \in Ids(users) :
       (DeleteUser(a, u) /\ Owns(u))
         => (result' = "ReferentialConflict" /\ UNCHANGED store)]_vars

\* the seeded owner's deletion was refused while he leads a team, owns the
\* project and its task exists
C2_Witness ==
  /\ result = "ReferentialConflict"
  /\ Owns(1) /\ tasks # {} /\ Refs(teams, "lead_id", 1) # {}

Deleted(etype, id) ==
  \E e \in activity_logs :
    e.action = "deleted" /\ e.entity_type = etype /\ e.entity_id = id

\* C3 as stated: the deletion of a user (who then owns no project) turns the
\* lead of his teams and the assignee of his tasks to NULL and changes
\* nothing else in teams and tasks.
C3_NullifiedRowsOtherwiseUnchanged ==
  [][\A u \in Ids(users) \ Ids(users') :
       /\ teams' = SetNull(teams, "lead_id", {u})
       /\ tasks' = SetNull(tasks, "assignee_id", {u})]_vars

\* C3, amended: the teams and tasks all stay; in the same step those of the
\* deleted user get lead / assignee NULL and updated_at the time of the
\* deletion, their other columns unchanged; the other rows are unchanged.
C3_UserDeleteNullifies ==
  [][\A u \in Ids(users) \ Ids(users') :
       /\ ~Owns(u)
       /\ Ids(teams') = Ids(teams) /\ Ids(tasks') = Ids(tasks)
       /\ \A r \in teams, r2 \in teams' :
            r2.id = r.id =>
              IF r.lead_id = u
                THEN /\ r2.lead_id = NULL /\ r2.updated_at = now
                     /\ SameExcept(r, r2, {"lead_id", "updated_at"})
                ELSE r2 = r
       /\ \A r \in tasks, r2 \in tasks' :
            r2.id = r.id =>
              IF r.assignee_id = u
                THEN /\ r2.assignee_id = NULL /\ r2.updated_at = now
                     /\ SameExcept(r, r2, {"assignee_id", "updated_at"})
                ELSE r2 = r]_vars

\* the developer, assignee of the task, deleted after the clock moved
C3_Witness ==
  /\ ops = 1 /\ Deleted("user", 2) /\ 2 \notin Ids(users)
  /\ \E r \in tasks : r.id = 1 /\ r.assignee_id = NULL /\ r.updated_at = 1
                      /\ r.status = "inprogress" /\ r.milestone_id = 1

\* C4: a step that removes a user leaves no team membership, project
\* membership, comment, time entry, attachment or notification of that user,
\* and the teams, projects and tasks of the removed rows still exist.
C4_UserDeleteCascades ==
  [][\A u \in Ids(users) \ Ids(users') :
       /\ Refs(team_members', "user_id", u) = {}
       /\ Refs(project_members', "user_id", u) = {}
       /\ Refs(task_comments', "user_id", u) = {}
       /\ Refs(time_logs', "user_id", u) = {}
       /\ Refs(attachments', "uploaded_by", u) = {}
       /\ Refs(notifications', "user_id", u) = {}
       /\ \A r \in Refs(team_members, "user_id", u) : r.team_id \in Ids(teams')
       /\ \A r \in Refs(project_members, "user_id", u) :
            r.project_id \in Ids(projects')
       /\ \A r \in Refs(task_comments, "user_id", u)
                     \cup Refs(time_logs, "user_id", u)
                     \cup Refs(attachments, "uploaded_by", u) :
            r.task_id \in Ids(tasks')]_vars

\* the developer deleted: his memberships, comment, time entry, attachment
\* and notification are gone, the team, the project and the task stay
C4_Witness ==
  /\ ops = 1 /\ Deleted("user", 2) /\ 2 \notin Ids(users)
  /\ nextId.task_comments = 2 /\ nextId.time_logs = 2
  /\ team_members = {} /\ project_members = {} /\ task_comments = {}
  /\ time_logs = {} /\ attachments = {} /\ notifications = {}
  /\ teams # {} /\ projects # {} /\ tasks # {}

\* C5: a step that removes a task (deleted itself, or with its project)
\* leaves no comment, attachment, task tag or time entry of that task; the
\* tags and users of the removed rows still exist.
C5_TaskRemovalCascades ==
  [][\A t \in Ids(tasks) \ Ids(tasks') :
       /\ Refs(task_comments', "task_id", t) = {}
       /\ Refs(attachments', "task_id", t) = {}
       /\ Refs(task_tags', "task_id", t) = {}
       /\ Refs(time_logs', "task_id", t) = {}
       /\ \A r \in Refs(task_tags, "task_id", t) : r.tag_id \in Ids(tags')
       /\ \A r \in Refs(task_comments, "task_id", t)
                     \cup Refs(time_logs, "task_id", t) :
            r.user_id \in Ids(users')
       /\ \A r \in Refs(attachments, "task_id", t) :
            r.uploaded_by \in Ids(users')]_vars

\* the task went with its project; its comment, time entry, tag link and
\* attachment are gone, the tag and the developer stay
C5_Witness ==
  /\ ops = 1 /\ Deleted("project", 1) /\ tasks = {}
  /\ nextId.task_comments = 2 /\ nextId.task_tags = 2
  /\ nextId.time_logs = 2 /\ nextId.attachments = 2
  /\ task_comments = {} /\ time_logs = {} /\ task_tags = {}
  /\ attachments = {} /\ tags # {} /\ 2 \in Ids(users)

C7_ReferentialIntegrity ==
  /\ \A r \in teams : NullOrResolves(r.lead_id, users)
  /\ \A r \in team_members : Resolves(r.team_id, teams) /\ Resolves(r.user_id, users)
  /\ \A r \in projects : Resolves(r.owner_id, users)
  /\ \A r \in project_members :
       Resolves(r.project_id, projects) /\ Resolves(r.user_id, users)
  /\ \A r \in milestones : Resolves(r.project_id, projects)
  /\ \A r \in tasks : /\ Resolves(r.project_id, projects)
                      /\ NullOrResolves(r.milestone_id, milestones)
                      /\ NullOrResolves(r.assignee_id, users)
  /\ \A r \in task_comments : Resolves(r.task_id, tasks) /\ Resolves(r.user_id, users)
  /\ \A r \in time_logs : Resolves(r.task_id, tasks) /\ Resolves(r.user_id, users)
  /\ \A r \in task_tags : Resolves(r.task_id, tasks) /\ Resolves(r.tag_id, tags)
  /\ \A r \in attachments :
       Resolves(r.task_id, tasks) /\ Resolves(r.uploaded_by, users)
  /\ \A r \in activity_logs : /\ NullOrResolves(r.user_id, users)
                              /\ NullOrResolves(r.project_id, projects)
  /\ \A r \in notifications : Resolves(r.user_id, users)

\* the developer deleted while the task, the project and his audit row stay
C7_Witness ==
  /\ Deleted("user", 2) /\ 2 \notin Ids(users)
  /\ \E r \in tasks : r.id = 1 /\ r.assignee_id = NULL /\ r.project_id = 1
  /\ \E e \in activity_logs : e.id = 2 /\ e.user_id = NULL /\ e.project_id = 1

StatusOf(rows, t) == (CHOOSE r \in rows : r.id = t).status

NewEvents == {e \in activity_logs' : e.id \notin Ids(activity_logs)}

\* C8: a step that changes the status of a task appends exactly one
\* status_changed event, for that task, with from the status before and to
\* the status after; no other status_changed event is appended.
C8_TransitionAppendsOneEvent ==
  [][LET sc == {e \in NewEvents : e.action = "status_changed"}
     IN /\ \A t \in Ids(tasks) \cap Ids(tasks') :
             StatusOf(tasks, t) # StatusOf(tasks', t) =>
               sc = {e \in sc :
                       /\ e.entity_type = "task" /\ e.entity_id = t
                       /\ e.details = [from |-> StatusOf(tasks, t),
                                       to |-> StatusOf(tasks', t)]}
               /\ Cardinality(sc) = 1
        /\ \A e \in sc :
             /\ e.entity_id \in Ids(tasks) \cap Ids(tasks')
             /\ StatusOf(tasks, e.entity_id) # StatusOf(tasks', e.entity_id)]_vars

\* the task moved from inprogress to done, with its event
C8_Witness ==
  /\ ops = 1
  /\ \E r \in tasks : r.id = 1 /\ r.status = "done"
  /\ \E e \in activity_logs :
       /\ e.id = 3 /\ e.action = "status_changed" /\ e.entity_id = 1
       /\ e.details = [from |-> "inprogress", to |-> "done"]

\* the records of the Entity Store, by entity type
entities ==
  [user |-> users, team |-> teams, project |-> projects,
   milestone |-> milestones, task |-> tasks, comment |-> task_comments,
   time_log |-> time_logs, tag |-> tags, attachment |-> attachments]

\* event e, appended by this step, tells what the step did to its entity
Describes(e) ==
  LET old == entities[e.entity_type]
      cur == entities'[e.entity_type]
  IN /\ e.created_at = now
     /\ CASE e.action \in {"created", "commented"} ->
               e.entity_id \in Ids(cur) \ Ids(old)
          [] e.action = "deleted" ->
               e.entity_id \in Ids(old) \ Ids(cur)
          [] OTHER ->
               /\ e.entity_id \in Ids(old) \cap Ids(cur)
               /\ \E r \in old : r.id = e.entity_id /\ r \notin cur

C10_EventsImmutable ==
  [][\A e \in activity_logs :
       \/ \E e2 \in activity_logs' :
            /\ e2.id = e.id
            /\ SameExcept(e, e2, {"user_id"})
            /\ \/ e2.user_id = e.user_id
               \/ e2.user_id = NULL /\ e.user_id \notin Ids(users')
       \/ /\ e.project_id # NULL
          /\ e.project_id \in Ids(projects) \ Ids(projects')]_vars

\* the task of the seeded status event and its actor are both deleted, the
\* event is still there, its actor NULL
C10_Witness ==
  /\ ops = 2 /\ tasks = {} /\ 2 \notin Ids(users) /\ projects # {}
  /\ \E e \in activity_logs :
       /\ e.id = 2 /\ e.user_id = NULL /\ e.entity_id = 1
       /\ e.details = [from |-> "todo", to |-> "inprogress"]

\* 0.25, 0.5, ..., 24 hours
QuarterHours == {25 * k : k \in 1..96}

\* C11: every time entry has hours that are a multiple of 0.25 from 0.25 to
\* 24, from the modal, the timer or any request; a request with other hours
\* (sent by a client or by the timer) answers ValidationError, creates no
\* entry and leaves the store and the total of the task as they were.
C11_TimeEntryHoursInDomain ==
  /\ [](\A r \in time_logs : r.hours \in QuarterHours)
  /\ [][/\ \A a \in Actor, t \in Ids(tasks), h \in HoursRequests \ QuarterHours :
            CreateTimeLog(a, t, h) =>
              /\ result' = "ValidationError"
              /\ Ids(time_logs') = Ids(time_logs)
              /\ total(time_logs', t) = total(time_logs, t)
              /\ UNCHANGED store
        /\ (handleStopTimer /\ HoursOfTimer(timerElapsed) > 2400) =>
              /\ result' = "ValidationError"
              /\ UNCHANGED <<store, timeLogs>>]_vars

\* the timer, stopped at 24:00:00, gave an entry of 24 hours; the next
\* request was refused
C11_Witness ==
  /\ ops = 2 /\ result = "ValidationError" /\ activeTimer = NULL
  /\ Len(timeLogs) = 1 /\ timeLogs[1].hours = 2400
  /\ Cardinality(time_logs) = 2

\* the totals of the tasks other than t are as they were
OtherTotalsUnchanged(t) ==
  \A t2 \in Ids(tasks) \ {t} : total(time_logs', t2) = total(time_logs, t2)

\* the total of t moved by d hundredths of an hour, no other total moved
TotalMoved(t, d) ==
  /\ total(time_logs', t) = total(time_logs, t) + d
  /\ OtherTotalsUnchanged(t)

\* C12: an accepted entry of h hours (a request, the modal or the timer) raises
\* the total of its task by exactly h, the deletion of an entry lowers the
\* total of its task by exactly the hours of the entry, both from the next
\* read on, no other total moves, and a step that neither records nor deletes
\* leaves every total as it was.
C12_TotalFollowsEntries ==
  [][/\ \A a \in Actor, t \in Ids(tasks), h \in HoursRequests \cap QuarterHours :
          CreateTimeLog(a, t, h) => TotalMoved(t, h)
     /\ \A t \in Ids(tasks), h \in TypedHours :
          handleAddEntry(t, h) => TotalMoved(t, h)
     /\ (handleStopTimer /\ HoursOfTimer(timerElapsed) \in QuarterHours) =>
          TotalMoved(activeTimer, HoursOfTimer(timerElapsed))
     /\ \A a \in Actor, e \in time_logs :
          (DeleteTimeLog(a, e.id) \/ handleDeleteEntry(e.id)) =>
             TotalMoved(e.task_id, 0 - e.hours)
     /\ Ids(time_logs') = Ids(time_logs) =>
          \A t \in Ids(tasks) : total(time_logs', t) = total(time_logs, t)]_vars

\* 1.5 hours recorded from the modal, then the seeded entry of 0.25 hours
\* deleted: the total is 1.5 hours
C12_Witness ==
  /\ ops = 2 /\ nextId.time_logs = 3
  /\ Ids(time_logs) = {2}
  /\ total(time_logs, 1) = 150

\* the rows of a table differ in the columns cols
DistinctOn(rows, cols) ==
  \A r1, r2 \in rows : (\A c \in cols : r1[c] = r2[c]) => r1 = r2

\* C13: no state has two team memberships with the same (team, user), two
\* project memberships with the same (project, user), two task tags with
\* the same (task, tag) or two tags with the same name; two transactions
\* never hold the same key open together, an open key has no committed
\* row, and an INSERT of a key that a committed row has fails with a
\* ValidationError and changes no table.
C13_UniqueKeysUnderConcurrency ==
  /\ [](/\ DistinctOn(team_members, {"team_id", "user_id"})
        /\ DistinctOn(project_members, {"project_id", "user_id"})
        /\ DistinctOn(task_tags, {"task_id", "tag_id"})
        /\ DistinctOn(tags, {"name"})
        /\ \A w1, w2 \in Writers :
             (w1 # w2 /\ txn[w1].pc = "open" /\ txn[w2].pc = "open") =>
               <<txn[w1].table, txn[w1].key>> # <<txn[w2].table, txn[w2].key>>)
  /\ [][\A w \in Writers :
          /\ (txn[w].pc = "open" /\ txn'[w].pc = "committed") =>
                \A w2 \in Writers \ {w} :
                  (txn'[w2].pc = "committed" /\ txn[w2].table = txn[w].table
                     /\ txn[w2].key = txn[w].key) =>
                    FALSE
          /\ \A table \in UniqueTables : \A key \in Keys(table) :
                (INSERT(w, table, key) /\ ~KeyFree(table, key)) =>
                  /\ txn'[w].pc = "failed"
                  /\ result' = "ValidationError"
                  /\ UNCHANGED store]_vars

\* both writers inserted the tag "feature": the first committed, the second
\* was refused
C13_Witness ==
  /\ txn[1] = [pc |-> "committed", table |-> "tags", key |-> <<"feature">>,
               id |-> 2]
  /\ txn[2] = [pc |-> "failed", table |-> "tags", key |-> <<"feature">>]
  /\ result = "ValidationError"
  /\ Cardinality({r \in tags : r.name = "feature"}) = 1

RECURSIVE Flatten(_)
Flatten(pp) == IF pp = <<>> THEN <<>> ELSE Head(pp) \o Flatten(Tail(pp))

\* the place of the row with this id in the order of insertion
Inserted(id) == CHOOSE i \in DOMAIN insertion : insertion[i] = id

\* the events fetched so far are events of the project and none older than
\* the last one is missing; after the last page all of them are there
PagesCover(f) ==
  /\ \A i \in DOMAIN f : f[i] \in activity_logs /\ f[i].project_id = FeedProject
  /\ \A e \in activity_logs :
       (e.project_id = FeedProject
          /\ (Finished \/ (f # <<>> /\ e.created_at > f[Len(f)].created_at)))
         => \E i \in DOMAIN f : f[i] = e
  /\ \A i, j \in DOMAIN f : f[i] = f[j] => i = j

NoOrphans(db) == \A fk \in ForeignKeys : Dangling(db, fk) = {}

\* C15: what a reader sees beside a deletion has no orphaned row, and while
\* the deletion has not committed it is the content from before the
\* deletion, the parent with all its dependent rows.
C15_ReaderNeverSeesPartialCascade ==
  /\ [](seen # <<>> => NoOrphans(seen[1]))
  /\ [][(seen' # seen /\ cascade.pc = "open") => seen' = <<cascade.before>>]_vars

\* a reader has read while a cascade had deleted some but not all of the
\* dependent rows
C15_Witness ==
  /\ cascade.pc = "open"
  /\ seen = <<cascade.before>>
  /\ ~NoOrphans(cascade.work)
  /\ cascade.work.tasks = {}
  /\ cascade.work.time_logs # {}

\* the statuses the claims name (in_progress is 'inprogress' in the enum)
Statuses == {"todo", "inprogress", "review", "done", "blocked"}

\* one update sets the status of task t to s
CanBeSet(t, s) ==
  ENABLED (\E a \in Actor : /\ UpdateTask(a, t, [status |-> s])
                            /\ StatusOf(tasks', t) = s)

\* C16: while requests are served, a task in any status can be set to any
\* other of the five statuses by one update, done to todo and blocked to
\* done among them; and an update leaves the task in the status it asked for.
C16_TransitionsUnrestricted ==
  /\ [](CanAct => \A r \in tasks : \A s \in Statuses \ {r.status} :
                     CanBeSet(r.id, s))
  /\ [][\A a \in Actor, t \in Ids(tasks), s \in Statuses :
          UpdateTask(a, t, [status |-> s]) => StatusOf(tasks', t) = s]_vars

\* the task was set to done and then back to todo
C16_Witness ==
  /\ ops = 2
  /\ \E r \in tasks : r.id = 1 /\ r.status = "todo"
  /\ \E e \in activity_logs :
       e.action = "status_changed" /\ e.details = [from |-> "inprogress", to |-> "done"]
  /\ \E e \in activity_logs :
       e.action = "status_changed" /\ e.details = [from |-> "done", to |-> "todo"]

NonTerminal == {"todo", "inprogress", "review"}

\* the status task t had when it was last set to blocked
HeldBeforeBlocked(t) ==
  LET blockings == {e \in activity_logs :
                      /\ e.action = "status_changed" /\ e.entity_type = "task"
                      /\ e.entity_id = t /\ e.details.to = "blocked"}
      last == CHOOSE e \in blockings : \A x \in blockings : x.id <= e.id
  IN last.details.from

\* one update sets a task in todo, inprogress or review to blocked
BlockedReachable ==
  CanAct => \A r \in tasks : r.status \in NonTerminal => CanBeSet(r.id, "blocked")

\* C17 as stated: blocked is reachable from todo, inprogress and review, and
\* a step that takes a task out of blocked leaves it in the status it had
\* when it was set to blocked.
C17_LeavingBlockedRestores ==
  /\ []BlockedReachable
  /\ [][\A r \in tasks :
          (r.status = "blocked" /\ r.id \in Ids(tasks')
             /\ StatusOf(tasks', r.id) # "blocked") =>
            StatusOf(tasks', r.id) = HeldBeforeBlocked(r.id)]_vars

\* C17, amended: blocked is reachable from todo, inprogress and review, and
\* a blocked task can be set by one update to each of the four other
\* statuses, whichever status it had when it was set to blocked.
C17_BlockedReachableAndLeftFreely ==
  /\ BlockedReachable
  /\ CanAct => \A r \in tasks :
                 r.status = "blocked" =>
                   \A s \in Statuses \ {"blocked"} : CanBeSet(r.id, s)

\* the task was blocked while in progress and left blocked for done
C17_Witness ==
  /\ ops = 2
  /\ \E r \in tasks : r.id = 1 /\ r.status = "done"
  /\ \E e \in activity_logs :
       e.action = "status_changed"
         /\ e.details = [from |-> "inprogress", to |-> "blocked"]
  /\ \E e \in activity_logs :
       e.action = "status_changed" /\ e.details = [from |-> "blocked", to |-> "done"]

HoursOf(rows, t) == (CHOOSE r \in rows : r.id = t).actual_hours

AssigneeOf(rows, t) == (CHOOSE r \in rows : r.id = t).assignee_id

\* C19: a step that changes the assignee of a task appends one assigned
\* event for the task, whose detail has from, the assignee before, and to,
\* the assignee after; when the step changes the status too it appends a
\* status_changed event for the task besides.
C19_AssignedEventCarriesFromTo ==
  [][\A t \in Ids(tasks) \cap Ids(tasks') :
       AssigneeOf(tasks, t) # AssigneeOf(tasks', t) =>
         LET assigned == {e \in NewEvents :
                            /\ e.action = "assigned" /\ e.entity_type = "task"
                            /\ e.entity_id = t}
         IN /\ Cardinality(assigned) = 1
            /\ \A e \in assigned :
                 /\ {"from", "to"} \subseteq DOMAIN e.details
                 /\ e.details.from = IdStr(AssigneeOf(tasks, t))
                 /\ e.details.to = IdStr(AssigneeOf(tasks', t))
            /\ StatusOf(tasks, t) # StatusOf(tasks', t) =>
                 \E e \in NewEvents \ assigned :
                   /\ e.action = "status_changed" /\ e.entity_id = t
                   /\ e.details = [from |-> StatusOf(tasks, t),
                                   to |-> StatusOf(tasks', t)]]_vars

\* one update moved the seeded task to review and gave it to user 1: two
\* events, the assigned one naming the new assignee only
C19_Witness ==
  /\ ops = 1
  /\ \E r \in tasks : r.id = 1 /\ r.status = "review" /\ r.assignee_id = 1
  /\ \E e \in activity_logs :
       e.id = 3 /\ e.action = "status_changed"
         /\ e.details = [from |-> "inprogress", to |-> "review"]
  /\ \E e \in activity_logs :
       e.id = 4 /\ e.action = "assigned" /\ e.details = [assignee |-> "1"]

\* C20: a step that removes a tag removes the task_tags rows of that tag
\* and no other row: the tasks, the task_tags rows of other tags and every
\* other table are as before, and the log has lost nothing.
C20_TagDeleteRemovesOnlyItsTaskTags ==
  [][\A g \in Ids(tags) \ Ids(tags') :
       /\ tags' = {r \in tags : r.id # g}
       /\ task_tags' = {r \in task_tags : r.tag_id # g}
       /\ tasks' = tasks
       /\ activity_logs \subseteq activity_logs'
       /\ UNCHANGED <<users, teams, team_members, projects, project_members,
                      milestones, task_comments, time_logs, attachments,
                      notifications>>]_vars

\* the tag 'bug' is deleted; the task that carried it is there, unchanged,
\* and still carries 'feature'
C20_Witness ==
  /\ Deleted("tag", 1)
  /\ tags = {[id |-> 2, name |-> "feature"]}
  /\ task_tags = {[id |-> 2, task_id |-> 1, tag_id |-> 2]}
  /\ \E r \in tasks : r.id = 1 /\ r.status = "inprogress" /\ r.updated_at = 0

\* the step wrote nothing and answered with an error
NothingWritten == result' # "Ok" /\ UNCHANGED <<store, nextId>>

\* C21: a create of a project whose owner, of a milestone or task whose
\* project, or of a comment, time entry or attachment whose task or user is
\* not the id of an existing row answers with an error and leaves every
\* table, the activity log among them, as it was.
C21_CreateWithDanglingReferenceRejected ==
  [][/\ \A owner \in RequestIds(users) :
          (owner \notin Ids(users) /\ POST_projects(session, owner))
            => NothingWritten
     /\ \A p \in RequestIds(projects) :
          (p \notin Ids(projects) /\ POST_milestones(session, p))
            => NothingWritten
     /\ \A p \in RequestIds(projects), m \in {NULL} \cup RequestIds(milestones),
           u \in {NULL} \cup RequestIds(users) :
          (p \notin Ids(projects) /\ POST_tasks(session, p, m, u))
            => NothingWritten
     /\ \A t \in RequestIds(tasks) :
          ((t \notin Ids(tasks) \/ session \notin Ids(users))
             /\ (\/ POST_comments(session, t)
                 \/ POST_attachments(session, t)
                 \/ \E h \in HoursInputs : POST_time_logs(session, t, h)))
            => NothingWritten]_vars

\* a create was rejected in the seeded database, which is as it was seeded
C21_Witness ==
  /\ result = "NotFound" /\ ops = 1
  /\ projects = {[id |-> 1, owner_id |-> 1, updated_at |-> 0]}
  /\ Cardinality(tasks) = 1 /\ Cardinality(activity_logs) = 2
  /\ session \in Ids(users)

\* C22: the store is as its last call left it: as created before any call,
\* the user and token of a setAuth with isAuthenticated true, or no user, no
\* token and isAuthenticated false after a logout; so isAuthenticated is
\* true exactly when there are a user and a token; and logout can be called
\* in every state.
C22_AuthStoreIsLastCall ==
  /\ IF calls = <<>>
       THEN user = null /\ token = null /\ ~isAuthenticated
       ELSE LET last == calls[Len(calls)]
            IN IF last.op = "setAuth"
                 THEN user = last.user /\ token = last.token /\ isAuthenticated
                 ELSE user = null /\ token = null /\ ~isAuthenticated
  /\ isAuthenticated <=> (user # null /\ token # null)
  /\ CanCall => ENABLED logout

\* a second setAuth replaced the user and the token of the first
C22_Witness ==
  /\ Len(calls) = 2
  /\ calls[1] = [op |-> "setAuth", user |-> "user-1", token |-> "token1"]
  /\ user = "user-2" /\ token = "token2" /\ isAuthenticated

\* C23: localStorage holds a token under 'token' exactly when the store is
\* authenticated, and it is the token of the store; each setAuth wrote it
\* and each logout removed it.
C23_LocalStorageFollowsStore ==
  /\ [](/\ getItem("token") # null <=> isAuthenticated
        /\ isAuthenticated => getItem("token") = token)
  /\ [][/\ \A u \in AuthUsers, t \in Tokens :
            setAuth(u, t) => localStorage'.token = t
        /\ logout => localStorage'.token = null]_vars

\* signed in, signed out and signed in again with another token
C23_Witness ==
  /\ Len(calls) = 3
  /\ calls[1].op = "setAuth" /\ calls[1].token = "token1"
  /\ calls[2].op = "logout"
  /\ localStorage.token = "token2" /\ token = "token2"

\* C28: after any interleaving of setAuth, logout and 401 responses the store
\* reports isAuthenticated = true only while localStorage still holds the
\* token that the request interceptor attaches; a 401 removes 'token' and
\* 'user' from localStorage, sends the window to /login and still rejects
\* the request.
C28_AuthenticatedOnlyWithToken ==
  /\ [](isAuthenticated => getItem("token") # null /\ getItem("token") = token)
  /\ [][\A i \in DOMAIN requests :
          response_401(i) => /\ localStorage'.token = null
                             /\ localStorage'.user = null
                             /\ location' = "/login"
                             /\ requests'[i].settled = "rejected"]_vars

\* a request that went out with the token of a signed-in user has come back
\* with a 401, and the store still reports the user as signed in
C28_Witness ==
  \E i \in DOMAIN requests :
    /\ requests[i].settled = "rejected"
    /\ requests[i].Authorization = <<"Bearer", token>>
    /\ isAuthenticated /\ getItem("token") = null
    /\ location = "/login" /\ state.unloading

\* the board changes for no task but t
OnlyTask(t) == \A o \in BoardTasks \ {t} : state'.tasks[o] = state.tasks[o]

\* C24: a drop on a column other than the one the dragged task was picked up
\* from shows the new status at once and sends exactly one update request; if
\* the request fails the task is shown again with the status it had when the
\* drag started, and no other task changes; a drop on the task's own column,
\* or with no task dragged, changes nothing on the board and sends nothing.
C24_DropIsOptimisticAndReverts ==
  [][/\ \A newStatus \in COLUMNS :
          handleDrop(newStatus) =>
            LET draggedTask == state.draggedTask IN
            IF draggedTask # NoTask /\ draggedTask.status # newStatus
            THEN /\ state'.tasks[draggedTask.id] = newStatus
                 /\ OnlyTask(draggedTask.id)
                 /\ Len(requests') = Len(requests) + 1
                 /\ requests'[Len(requests')].id = draggedTask.id
                 /\ requests'[Len(requests')].status = newStatus
                 /\ requests'[Len(requests')].pc = "sent"
            ELSE state'.tasks = state.tasks /\ requests' = requests
     /\ \A i \in DOMAIN requests :
          handleDrop_rejected(i) =>
            /\ state'.tasks[requests[i].id] = requests[i].draggedTask.status
            /\ OnlyTask(requests[i].id)
            /\ backend' = backend]_vars

\* a failed update has put a task back where it was picked up, while the other
\* task shows a status it was moved to
C24_Witness ==
  \E i \in DOMAIN requests :
    /\ requests[i].pc = "done"
    /\ requests[i].status # requests[i].draggedTask.status
    /\ state.tasks[requests[i].id] = requests[i].draggedTask.status
    /\ backend[requests[i].id] = requests[i].draggedTask.status
    /\ \E o \in BoardTasks \ {requests[i].id} : state.tasks[o] = "Done"

\* no request is outstanding
Settled == \A i \in DOMAIN requests : requests[i].pc = "done"

\* C25: for any sequence of drops, requests of one task that overlap and
\* failures included, once every outstanding request has completed the board
\* shows for each task the status the server holds.
C25_BoardMatchesServer ==
  Settled => \A t \in BoardTasks : state.tasks[t] = backend[t]

\* a task was dropped, picked up again where the board showed it and dropped
\* again; both requests are over, and the board and the server differ
C25_Witness ==
  /\ Len(requests) = 2 /\ Settled
  /\ requests[1].id = requests[2].id
  /\ requests[2].draggedTask.status = requests[1].status
  /\ \E t \in BoardTasks : state.tasks[t] # backend[t]

\* C26: for any interleaving of add and remove requests for one task the
\* selected list never contains a tag id twice, a tag offered as available is
\* never one that is selected, a failed request leaves the selected list as
\* it was, and when no request is outstanding the selected tags are the tags
\* the server holds for the task.
C26_SelectedTagsMatchServer ==
  /\ [](/\ Cardinality(TagIds(state.selectedTags)) = Len(state.selectedTags)
        /\ availableTags \cap TagIds(state.selectedTags) = {}
        /\ Settled => TagIds(state.selectedTags) = backend)
  /\ [][\A i \in DOMAIN requests :
          tag_request_failed(i) => state'.selectedTags = state.selectedTags]_vars

\* two removals overlapped and both were served; the list shows a tag that the
\* server no longer holds
C26_Witness ==
  /\ Len(requests) = 2 /\ Settled
  /\ requests[1].op = "remove" /\ requests[2].op = "remove"
  /\ requests[2].selectedTags = requests[1].selectedTags
  /\ backend = {}
  /\ state.selectedTags # <<>>

\* C27: the project filter is changed any number of times; when every request
\* has completed (the one for the current selection with a response) the list
\* shown is the response for the project that is selected, a slower response
\* for an earlier selection never having replaced it, and loading is false.
C27_FeedShowsSelectedProject ==
  (Settled /\ requests[Len(requests)].outcome = "ok") =>
    /\ state.activities = backend[state.selectedProjectId]
    /\ ~state.loading

\* every request was answered, the one for the first selection last, and the
\* page shows the list of a project other than the one selected
C27_Witness ==
  /\ Len(requests) = 3 /\ Settled
  /\ \A i \in DOMAIN requests : requests[i].outcome = "ok"
  /\ state.selectedProjectId = requests[3].project_id
  /\ state.activities = backend[requests[2].project_id]
  /\ state.activities # backend[state.selectedProjectId]
  /\ ~state.loading

\* the hours the user has logged on the day of the reference date
HoursOfReferenceDay ==
  LET logged == {log \in backend : log.date = formatDate(state.currentWeek)}
  IN  IF logged = {} THEN 0 ELSE (CHOOSE log \in logged : TRUE).hours

\* C29: getWeekDates returns seven consecutive days that start on a Monday
\* and include the reference date; the week's total counts the entries of
\* the reference day; and going to the next week and back to the previous
\* one shows the same seven days again.
C29_WeekHoldsReferenceDate ==
  /\ Len(weekDates) = 7
  /\ getDay(weekDates[1]) = 1
  /\ \A i \in 1..6 : weekDates[i + 1] = weekDates[i] + 1
  /\ \E i \in 1..7 : weekDates[i] = state.currentWeek
  /\ getHoursForDate(formatDate(state.currentWeek)) = HoursOfReferenceDay
  /\ getWeekTotal >= HoursOfReferenceDay
  /\ \E i \in 1..7 :
       getHoursForDate(formatDate(weekDates[i])) = HoursOfReferenceDay
  /\ \A k \in 3..Len(state.shown) :
       state.shown[k - 1].op = "next" /\ state.shown[k].op = "prev"
         => state.shown[k].week = state.shown[k - 2].week

\* the page was opened on a Sunday, and after a week forward and a week back
\* it shows the week that starts on the day after that Sunday
C29_Witness ==
  /\ getDay(state.currentWeek) = 0
  /\ Len(state.shown) = 3
  /\ state.shown[2].op = "next" /\ state.shown[3].op = "prev"
  /\ weekDates[1] = state.currentWeek + 1
  /\ getHoursForDate(formatDate(state.currentWeek)) = 0

\* the rows of tasks, milestones and project_members of the projects other
\* than p, and the other projects themselves
OtherProjects(p, ts, ms, pms, ps) ==
  <<{r \in ts : r.project_id # p}, {r \in ms : r.project_id # p},
    {r \in pms : r.project_id # p}, {r \in ps : r.id # p}>>

\* C30: deleting a project or a milestone changes only rows of that project:
\* in every reachable state a task with a milestone references a milestone of
\* the task's own project, and no row of another project is deleted or
\* modified.
C30_DeletionStaysInProject ==
  /\ [](\A t \in tasks :
          t.milestone_id # NULL =>
            \E m \in milestones : /\ m.id = t.milestone_id
                                  /\ m.project_id = t.project_id)
  /\ [][/\ \A a \in Actor, p \in Ids(projects) :
             DeleteProject(a, p) =>
               OtherProjects(p, tasks', milestones', project_members', projects')
                 = OtherProjects(p, tasks, milestones, project_members, projects)
        /\ \A a \in Actor, m \in Ids(milestones) :
             DeleteMilestone(a, m) =>
               LET p == (CHOOSE r \in milestones : r.id = m).project_id
               IN  OtherProjects(p, tasks', milestones', project_members', projects')
                     = OtherProjects(p, tasks, milestones, project_members, projects)
       ]_vars

\* project 1 has been deleted, and with it the milestone of a task of
\* project 2, which has lost its milestone
C30_Witness ==
  /\ ~Resolves(1, projects)
  /\ \E t \in tasks : /\ t.id = 3 /\ t.project_id = 2 /\ t.milestone_id = NULL
  /\ \E e \in activity_logs :
       /\ e.id = 6 /\ e.entity_type = "task" /\ e.entity_id = 3
       /\ e.action = "created"

====
